---- MODULE Spec2Model ----
(***************************************************************************)
(* Model of the pkg-config flag classifiers of rust-spdk-io:               *)
(*   pkgconf::PkgConfigParser        (src/pkgconf/src/lib.rs)              *)
(*   spdk_io_build::PkgConfigParser  (src/spdk-io-build/src/lib.rs)        *)
(* Strings are sequences of one-character strings, so that strip_prefix,   *)
(* strip_suffix and contains are computed as the Rust code computes them.  *)
(* pkg_config_output holds the tokens split_whitespace yields.              *)
(* The module also models parse_cflags, is_static_available as a function  *)
(* of its arguments, and the rendering of cargo directives.                *)
(* probe and probe_and_emit run pkg-config, whose outcome is the            *)
(* environment's choice, and then the classifiers.                         *)
(***************************************************************************)
EXTENDS Integers, Sequences, FiniteSets, TLC

VARIABLES
    parser,                  \* which crate's PkgConfigParser runs the pass
    system_roots,            \* pkgconf PkgConfigParser.system_roots
    force_whole_archive,     \* pkgconf PkgConfigParser.force_whole_archive
    system_libs,             \* spdk_io_build PkgConfigParser.system_libs
    files,                   \* the files that exist on the filesystem
    pkg_config_output,       \* the argument of parse, as its tokens
    pc,                      \* the running operation and its position:
                             \*   parse: "first_pass", "second_pass"
                             \*   parse_cflags: "parse_cflags"
                             \*   probe: "run_pkg_config", "run_pkg_config_cflags",
                             \*     then parse, parse_cflags, "returned"
                             \*   one-step calls: "call", then "returned"
    pos,                     \* tokens consumed by the classification loop
    lib_dirs,                \* parse: lib_dirs
    flags,                   \* parse: flags
    seen_libs,               \* parse: seen_libs
    lib_indices,             \* parse: lib_indices (indices are 0-based)
    in_whole_archive_region, \* parse: in_whole_archive_region
    cflags_output,           \* the argument of parse_cflags, as its tokens
    cflags,                  \* parse_cflags: flags
    cflags_seen,             \* parse_cflags: seen
    probe_name,              \* is_static_available: name
    probe_result,            \* the value is_static_available returned
    no_bundle,               \* to_cargo_directives: no_bundle
    directives,              \* the lines to_cargo_directives returned
    probe_calls,             \* parse: the names is_static_available was
                             \*   called with by handle_library, in order
    queries,                 \* probe: the pkg-config runs and their outcomes
    ret,                     \* probe / probe_and_emit: the returned Result
    returned,                \* the outputs of the parse calls that returned
    ENV_INITIALIZED,         \* env.rs: static ENV_INITIALIZED
    env_thread,              \* env.rs: each OS thread's position in build /
                             \*   drop, the SpdkEnv values it owns, and the
                             \*   call that returned last
    spdk_env,                \* the SPDK environment library behind
                             \*   spdk_env_init / spdk_env_fini
    env_calls,               \* env.rs: build calls started, drops finished
    THREAD_LIB_INITIALIZED,  \* thread.rs: static THREAD_LIB_INITIALIZED
    os_thread,               \* thread.rs: each OS thread's position in
                             \*   current / drop, its current SPDK thread
                             \*   (spdk_set_thread), the SpdkThread values it
                             \*   owns, its last call and last get_current
    spdk_thread_lib,         \* the SPDK thread library: its threads, and
                             \*   the init / fini calls made
    thread_calls,            \* thread.rs: current calls the program may
                             \*   still start
    init_calls               \* thread.rs: thread_lib_init_ext calls the
                             \*   program may still make itself

vars == <<parser, system_roots, force_whole_archive, system_libs, files,
          pkg_config_output, pc, pos, lib_dirs, flags, seen_libs,
          lib_indices, in_whole_archive_region, cflags_output, cflags,
          cflags_seen, probe_name, probe_result, no_bundle, directives,
          probe_calls, queries, ret, returned, ENV_INITIALIZED, env_thread,
          spdk_env, env_calls, THREAD_LIB_INITIALIZED, os_thread,
          spdk_thread_lib, thread_calls, init_calls>>

\* The state of the operations other than parse.
others == <<cflags_output, cflags, cflags_seen, probe_name, probe_result,
            no_bundle, directives>>

\* The state of the operations around the classifiers.
outer == <<queries, ret, returned>>

\* The state of the SPDK runtime wrappers.
env_rs == <<ENV_INITIALIZED, env_thread, spdk_env, env_calls>>
thread_rs == <<THREAD_LIB_INITIALIZED, os_thread, spdk_thread_lib,
               thread_calls, init_calls>>
runtime == <<env_rs, thread_rs>>

config == <<parser, system_roots, force_whole_archive, system_libs, files,
            pkg_config_output>>

(***************************************************************************)
(* Bounds                                                                  *)
(***************************************************************************)
MaxLen == 5

(***************************************************************************)
(* String literals of the source                                           *)
(***************************************************************************)
S_L            == <<"-","L">>
S_Wl           == <<"-","W","l",",">>
S_lcolon       == <<"-","l",":">>
S_l            == <<"-","l">>
S_lib          == <<"l","i","b">>
S_dot_a        == <<".","a">>
S_dash_pthread == <<"-","p","t","h","r","e","a","d">>
S_pthread      == <<"p","t","h","r","e","a","d">>
S_whole        == <<"-","-","w","h","o","l","e","-","a","r","c","h","i","v","e">>
S_no_whole     == <<"-","-","n","o","-","w","h","o","l","e","-","a","r","c","h","i","v","e">>
S_export_dynamic == <<"e","x","p","o","r","t","-","d","y","n","a","m","i","c">>
S_as_needed    == <<"a","s","-","n","e","e","d","e","d">>
S_usr          == <<"/","u","s","r">>

(***************************************************************************)
(* Rust std: str and Path                                                  *)
(***************************************************************************)
None == [some |-> FALSE, val |-> <<>>]
Some(v) == [some |-> TRUE, val |-> v]
unwrap_or(o, d) == IF o.some THEN o.val ELSE d

starts_with(s, p) == Len(s) >= Len(p) /\ SubSeq(s, 1, Len(p)) = p
ends_with(s, p) == Len(s) >= Len(p) /\ SubSeq(s, Len(s) - Len(p) + 1, Len(s)) = p

strip_prefix(s, p) ==
    IF starts_with(s, p) THEN Some(SubSeq(s, Len(p) + 1, Len(s))) ELSE None

strip_suffix(s, p) ==
    IF ends_with(s, p) THEN Some(SubSeq(s, 1, Len(s) - Len(p))) ELSE None

contains(s, p) ==
    \E i \in 0..(Len(s) - Len(p)) : SubSeq(s, i + 1, i + Len(p)) = p

\* The segments of a path between "/" separators (empty segments included).
RECURSIVE Segments(_, _)
Segments(s, cur) ==
    IF s = <<>> THEN <<cur>>
    ELSE IF Head(s) = "/" THEN <<cur>> \o Segments(Tail(s), <<>>)
    ELSE Segments(Tail(s), Append(cur, Head(s)))

\* The segments Path::components keeps: empty segments (repeated or trailing
\* separators) are dropped, and so is "." unless it starts a relative path.
RECURSIVE Normal(_, _)
Normal(segs, leading) ==
    IF segs = <<>> THEN <<>>
    ELSE IF Head(segs) = <<>> THEN Normal(Tail(segs), leading)
    ELSE IF Head(segs) = <<".">> /\ ~leading THEN Normal(Tail(segs), FALSE)
    ELSE <<Head(segs)>> \o Normal(Tail(segs), FALSE)

\* Path::components: a root component for an absolute path, then the
\* normal segments.
Components(p) ==
    IF starts_with(p, <<"/">>)
    THEN <<<<"/">>>> \o Normal(Segments(p, <<>>), FALSE)
    ELSE Normal(Segments(p, <<>>), TRUE)

\* Path::starts_with compares whole components.
path_starts_with(p, base) == starts_with(Components(p), Components(base))

\* Path::join with a relative second path.
path_join(dir, name) ==
    IF dir = <<>> THEN name
    ELSE IF ends_with(dir, <<"/">>) THEN dir \o name
    ELSE dir \o <<"/">> \o name

exists(path) == path \in files

(***************************************************************************)
(* The data types                                                          *)
(***************************************************************************)
SearchPath(path) == [tag |-> "SearchPath", path |-> path]
Library(name, kind) == [tag |-> "Library", name |-> name, kind |-> kind]
LinkerArg(arg) == [tag |-> "LinkerArg", arg |-> arg]

\* Vec<LinkerFlag> is indexed from 0.
At(fl, idx) == fl[idx + 1]

(***************************************************************************)
(* The local state of one parse call                                       *)
(***************************************************************************)
ParseState(fl, seen, indices, region) ==
    [flags |-> fl, seen_libs |-> seen, lib_indices |-> indices,
     in_whole_archive_region |-> region]

\* parse, before the classification loop.
InitialParseState == ParseState(<<>>, {}, <<>>, FALSE)

\* HashMap::insert
MapInsert(m, k, v) == [n \in DOMAIN m \cup {k} |-> IF n = k THEN v ELSE m[n]]

(***************************************************************************)
(* pkgconf::PkgConfigParser                                                *)
(***************************************************************************)
\* Mutant: containment in a system root decided on the text of the path.
is_static_available_StringPrefix(name, dirs) ==
    LET libname == S_lib \o name \o S_dot_a
    IN \E i \in 1..Len(dirs) :
          LET dir == dirs[i]
              library_exists == exists(path_join(dir, libname))
              is_system_dir ==
                  \E j \in 1..Len(system_roots) :
                      starts_with(dir, system_roots[j])
          IN library_exists /\ ~is_system_dir

\* Mutant: the directory is not tested against the system roots.
is_static_available_NoSystemCheck(name, dirs) ==
    LET libname == S_lib \o name \o S_dot_a
    IN \E i \in 1..Len(dirs) : exists(path_join(dirs[i], libname))

is_static_available(name, dirs) ==
    LET libname == S_lib \o name \o S_dot_a
    IN \E i \in 1..Len(dirs) :
          LET dir == dirs[i]
              library_exists == exists(path_join(dir, libname))
              is_system_dir ==
                  \E j \in 1..Len(system_roots) :
                      path_starts_with(dir, system_roots[j])
          IN library_exists /\ ~is_system_dir

\* First pass of parse: the values of all -L tokens, in order.
RECURSIVE CollectLibDirs(_)
CollectLibDirs(output) ==
    IF output = <<>> THEN <<>>
    ELSE LET path == strip_prefix(Head(output), S_L)
         IN (IF path.some THEN <<path.val>> ELSE <<>>)
                \o CollectLibDirs(Tail(output))

\* Mutant: the begin marker is looked for without its leading dashes, so the
\* end marker, which contains "whole-archive" too, opens the region.
NextRegion_SubstringConfusion(wl_args, region) ==
    IF contains(wl_args, SubSeq(S_whole, 3, Len(S_whole))) THEN TRUE
    ELSE region

\* The region flag after a -Wl,<wl_args> token.
NextRegion(wl_args, region) ==
    IF contains(wl_args, S_whole) /\ ~contains(wl_args, S_no_whole) THEN TRUE
    ELSE IF contains(wl_args, S_no_whole) THEN FALSE
    ELSE region

\* Whether a -Wl,<wl_args> token is passed through as a LinkerArg.
PassThrough(wl_args) ==
    contains(wl_args, S_export_dynamic) \/ contains(wl_args, S_as_needed)

\* The library name of an explicit-archive token -l:<rest>.
ExplicitArchiveName(rest) ==
    unwrap_or(strip_suffix(unwrap_or(strip_prefix(rest, S_lib), rest), S_dot_a),
              rest)

\* Mutant: the region and the force set decide before static availability.
PkgLinkKind_NoStaticCheck(region, forced_whole_archive, has_static) ==
    IF region \/ forced_whole_archive THEN "WholeArchive"
    ELSE IF has_static THEN "Static"
    ELSE "Default"

\* Mutant: the force set is not consulted.
PkgLinkKind_IgnoreForced(region, forced_whole_archive, has_static) ==
    IF region /\ has_static THEN "WholeArchive"
    ELSE IF has_static THEN "Static"
    ELSE "Default"

\* The kind of a library at its first mention.
PkgLinkKind(region, forced_whole_archive, has_static) ==
    IF (region \/ forced_whole_archive) /\ has_static THEN "WholeArchive"
    ELSE IF has_static THEN "Static"
    ELSE "Default"

\* Mutant: the upgrade does not test that the recorded kind is Static.
PkgUpgrade_AnyKind(fl, indices, lib_name, region) ==
    IF /\ region
       /\ lib_name \in DOMAIN indices
       /\ At(fl, indices[lib_name]).tag = "Library"
    THEN [fl EXCEPT ![indices[lib_name] + 1].kind = "WholeArchive"]
    ELSE fl

\* Mutant: a re-mention never upgrades.
PkgUpgrade_Never(fl, indices, lib_name, region) == fl

\* Mutant: the upgraded entry is removed and pushed again at the end.
PkgUpgrade_MoveToEnd(fl, indices, lib_name, region) ==
    IF /\ region
       /\ lib_name \in DOMAIN indices
       /\ At(fl, indices[lib_name]).tag = "Library"
       /\ At(fl, indices[lib_name]).kind = "Static"
    THEN Append(SubSeq(fl, 1, indices[lib_name])
                    \o SubSeq(fl, indices[lib_name] + 2, Len(fl)),
                Library(lib_name, "WholeArchive"))
    ELSE fl

\* handle_library, library already seen: the flags after the upgrade check.
PkgUpgrade(fl, indices, lib_name, region) ==
    IF /\ region
       /\ lib_name \in DOMAIN indices
       /\ At(fl, indices[lib_name]).tag = "Library"
       /\ At(fl, indices[lib_name]).kind = "Static"
    THEN [fl EXCEPT ![indices[lib_name] + 1].kind = "WholeArchive"]
    ELSE fl

\* Mutant: no seen_libs test, every mention pushes an entry.
PkgHandleLibrary_NoDedup(st, lib_name, dirs) ==
    LET has_static == is_static_available(lib_name, dirs)
        forced_whole_archive == lib_name \in force_whole_archive
        kind == PkgLinkKind(st.in_whole_archive_region,
                            forced_whole_archive, has_static)
        idx == Len(st.flags)
    IN [st EXCEPT !.flags = Append(st.flags, Library(lib_name, kind)),
                  !.seen_libs = st.seen_libs \cup {lib_name},
                  !.lib_indices = MapInsert(st.lib_indices, lib_name, idx)]

\* Mutant: a single pass, the probe sees only the -L directories of the
\* tokens before the library token.
PkgHandleLibrary_DirsSoFar(st, lib_name, dirs) ==
    IF lib_name \in st.seen_libs
    THEN [st EXCEPT !.flags = PkgUpgrade(st.flags, st.lib_indices, lib_name,
                                         st.in_whole_archive_region)]
    ELSE LET seen_dirs ==
                 [i \in 1..Cardinality({ j \in 1..Len(st.flags) :
                                           st.flags[j].tag = "SearchPath" }) |->
                     st.flags[CHOOSE j \in 1..Len(st.flags) :
                                /\ st.flags[j].tag = "SearchPath"
                                /\ Cardinality({ m \in 1..j :
                                       st.flags[m].tag = "SearchPath" }) = i].path]
             has_static == is_static_available(lib_name, seen_dirs)
             forced_whole_archive == lib_name \in force_whole_archive
             kind == PkgLinkKind(st.in_whole_archive_region,
                                 forced_whole_archive, has_static)
             idx == Len(st.flags)
         IN [st EXCEPT !.flags = Append(st.flags, Library(lib_name, kind)),
                       !.seen_libs = st.seen_libs \cup {lib_name},
                       !.lib_indices = MapInsert(st.lib_indices, lib_name, idx)]

\* handle_library
PkgHandleLibrary(st, lib_name, dirs) ==
    IF lib_name \in st.seen_libs
    THEN [st EXCEPT !.flags = PkgUpgrade(st.flags, st.lib_indices, lib_name,
                                         st.in_whole_archive_region)]
    ELSE LET has_static == is_static_available(lib_name, dirs)
             forced_whole_archive == lib_name \in force_whole_archive
             kind == PkgLinkKind(st.in_whole_archive_region,
                                 forced_whole_archive, has_static)
             idx == Len(st.flags)
         IN [st EXCEPT !.flags = Append(st.flags, Library(lib_name, kind)),
                       !.seen_libs = st.seen_libs \cup {lib_name},
                       !.lib_indices = MapInsert(st.lib_indices, lib_name, idx)]

\* Mutant: the probe runs before the seen_libs test, at every mention.
PkgHandleLibraryProbes_BeforeSeenTest(st, lib_name) == <<lib_name>>

\* handle_library: the names it calls is_static_available with (none when
\* the name was seen, where the function returns before the call).
PkgHandleLibraryProbes(st, lib_name) ==
    IF lib_name \in st.seen_libs THEN <<>> ELSE <<lib_name>>

\* Mutant: a directory already in the output is not pushed again.
PkgOnSearchPath_Dedup(st, path) ==
    IF \E i \in 1..Len(st.flags) : st.flags[i] = SearchPath(path) THEN st
    ELSE [st EXCEPT !.flags = Append(st.flags, SearchPath(path))]

\* parse, -L branch
PkgOnSearchPath(st, path) ==
    [st EXCEPT !.flags = Append(st.flags, SearchPath(path))]

\* parse, -Wl, branch
PkgOnWl(st, tok, wl_args) ==
    [st EXCEPT !.in_whole_archive_region =
                   NextRegion(wl_args, st.in_whole_archive_region),
               !.flags = IF PassThrough(wl_args)
                         THEN Append(st.flags, LinkerArg(tok))
                         ELSE st.flags]

\* Mutant: the entry is pushed but pthread is not marked seen.
PkgOnPthread_NotMarked(st) ==
    [st EXCEPT !.flags = Append(st.flags, Library(S_pthread, "Default"))]

\* parse, -pthread branch
PkgOnPthread(st) ==
    [st EXCEPT !.flags = Append(st.flags, Library(S_pthread, "Default")),
               !.seen_libs = st.seen_libs \cup {S_pthread}]

\* Which branch of the if / else-if chain of the loop body takes the token.
PkgBranch(st, tok) ==
    IF strip_prefix(tok, S_L).some THEN "SearchPath"
    ELSE IF strip_prefix(tok, S_Wl).some THEN "Wl"
    ELSE IF strip_prefix(tok, S_lcolon).some THEN "ExplicitArchive"
    ELSE IF strip_prefix(tok, S_l).some THEN "Lib"
    ELSE IF tok = S_dash_pthread /\ S_pthread \notin st.seen_libs THEN "Pthread"
    ELSE "None"

\* Mutant: a token no branch takes closes the whole-archive region.
PkgBody_UnknownClosesRegion(st, tok, dirs) ==
    LET b == PkgBranch(st, tok)
    IN CASE b = "SearchPath" -> PkgOnSearchPath(st, strip_prefix(tok, S_L).val)
         [] b = "Wl" -> PkgOnWl(st, tok, strip_prefix(tok, S_Wl).val)
         [] b = "ExplicitArchive" ->
                PkgHandleLibrary(
                    st, ExplicitArchiveName(strip_prefix(tok, S_lcolon).val), dirs)
         [] b = "Lib" -> PkgHandleLibrary(st, strip_prefix(tok, S_l).val, dirs)
         [] b = "Pthread" -> PkgOnPthread(st)
         [] OTHER -> [st EXCEPT !.in_whole_archive_region = FALSE]

\* The body of the classification loop of parse, for one token.
PkgBody(st, tok, dirs) ==
    LET b == PkgBranch(st, tok)
    IN CASE b = "SearchPath" -> PkgOnSearchPath(st, strip_prefix(tok, S_L).val)
         [] b = "Wl" -> PkgOnWl(st, tok, strip_prefix(tok, S_Wl).val)
         [] b = "ExplicitArchive" ->
                PkgHandleLibrary(
                    st, ExplicitArchiveName(strip_prefix(tok, S_lcolon).val), dirs)
         [] b = "Lib" -> PkgHandleLibrary(st, strip_prefix(tok, S_l).val, dirs)
         [] b = "Pthread" -> PkgOnPthread(st)
         [] OTHER -> st

\* The body of the classification loop: the names it has handle_library
\* call is_static_available with, for one token.
PkgBodyProbes(st, tok) ==
    LET b == PkgBranch(st, tok)
    IN CASE b = "ExplicitArchive" ->
                PkgHandleLibraryProbes(
                    st, ExplicitArchiveName(strip_prefix(tok, S_lcolon).val))
         [] b = "Lib" -> PkgHandleLibraryProbes(st, strip_prefix(tok, S_l).val)
         [] OTHER -> <<>>

\* The classification loop over the tokens toks, from state st.
RECURSIVE PkgLoop(_, _, _)
PkgLoop(st, toks, dirs) ==
    IF toks = <<>> THEN st
    ELSE PkgLoop(PkgBody(st, Head(toks), dirs), Tail(toks), dirs)

\* parse as a function of its input.
PkgParse(output) ==
    PkgLoop(InitialParseState, output, CollectLibDirs(output)).flags

(***************************************************************************)
(* spdk_io_build::PkgConfigParser                                          *)
(***************************************************************************)
is_system_lib(name) == name \in system_libs

BldNextRegion(wl_args, region) ==
    IF contains(wl_args, S_whole) /\ ~contains(wl_args, S_no_whole) THEN TRUE
    ELSE IF contains(wl_args, S_no_whole) THEN FALSE
    ELSE region

BldPassThrough(wl_args) ==
    contains(wl_args, S_export_dynamic) \/ contains(wl_args, S_as_needed)

BldExplicitArchiveName(rest) ==
    unwrap_or(strip_suffix(unwrap_or(strip_prefix(rest, S_lib), rest), S_dot_a),
              rest)

\* Mutant: the region is tested before the system library set.
determine_link_kind_RegionFirst(lib_name, region) ==
    IF region THEN "WholeArchive"
    ELSE IF is_system_lib(lib_name) THEN "Dynamic"
    ELSE "Static"

determine_link_kind(lib_name, region) ==
    IF is_system_lib(lib_name) THEN "Dynamic"
    ELSE IF region THEN "WholeArchive"
    ELSE "Static"

\* Mutant: a repeated mention never changes the recorded kind.
BldUpgrade_Never(fl, indices, lib_name, region) == fl

BldUpgrade(fl, indices, lib_name, region) ==
    IF /\ region
       /\ ~is_system_lib(lib_name)
       /\ lib_name \in DOMAIN indices
       /\ At(fl, indices[lib_name]).tag = "Library"
       /\ At(fl, indices[lib_name]).kind = "Static"
    THEN [fl EXCEPT ![indices[lib_name] + 1].kind = "WholeArchive"]
    ELSE fl

BldHandleLibrary(st, lib_name) ==
    IF lib_name \in st.seen_libs
    THEN [st EXCEPT !.flags = BldUpgrade(st.flags, st.lib_indices, lib_name,
                                         st.in_whole_archive_region)]
    ELSE LET kind == determine_link_kind(lib_name, st.in_whole_archive_region)
             idx == Len(st.flags)
         IN [st EXCEPT !.flags = Append(st.flags, Library(lib_name, kind)),
                       !.seen_libs = st.seen_libs \cup {lib_name},
                       !.lib_indices = MapInsert(st.lib_indices, lib_name, idx)]

BldOnSearchPath(st, path) ==
    [st EXCEPT !.flags = Append(st.flags, SearchPath(path))]

BldOnWl(st, tok, wl_args) ==
    [st EXCEPT !.in_whole_archive_region =
                   BldNextRegion(wl_args, st.in_whole_archive_region),
               !.flags = IF BldPassThrough(wl_args)
                         THEN Append(st.flags, LinkerArg(tok))
                         ELSE st.flags]

BldOnPthread(st) ==
    [st EXCEPT !.flags = Append(st.flags, Library(S_pthread, "Dynamic")),
               !.seen_libs = st.seen_libs \cup {S_pthread}]

BldBranch(st, tok) ==
    IF strip_prefix(tok, S_L).some THEN "SearchPath"
    ELSE IF strip_prefix(tok, S_Wl).some THEN "Wl"
    ELSE IF strip_prefix(tok, S_lcolon).some THEN "ExplicitArchive"
    ELSE IF strip_prefix(tok, S_l).some THEN "Lib"
    ELSE IF tok = S_dash_pthread /\ S_pthread \notin st.seen_libs THEN "Pthread"
    ELSE "None"

BldBody(st, tok) ==
    LET b == BldBranch(st, tok)
    IN CASE b = "SearchPath" -> BldOnSearchPath(st, strip_prefix(tok, S_L).val)
         [] b = "Wl" -> BldOnWl(st, tok, strip_prefix(tok, S_Wl).val)
         [] b = "ExplicitArchive" ->
                BldHandleLibrary(
                    st, BldExplicitArchiveName(strip_prefix(tok, S_lcolon).val))
         [] b = "Lib" -> BldHandleLibrary(st, strip_prefix(tok, S_l).val)
         [] b = "Pthread" -> BldOnPthread(st)
         [] OTHER -> st

(***************************************************************************)
(* Inputs                                                                  *)
(***************************************************************************)
\* The classification loop of spdk_io_build parse over the tokens toks.
RECURSIVE BldLoop(_, _)
BldLoop(st, toks) ==
    IF toks = <<>> THEN st
    ELSE BldLoop(BldBody(st, Head(toks)), Tail(toks))

\* spdk_io_build parse as a function of its input.
BldParse(output) == BldLoop(InitialParseState, output).flags

N_f == <<"f">>
N_g == <<"g">>

T_L_o       == <<"-","L","/","o">>
T_L_usr_l   == <<"-","L","/","u","s","r","/","l">>
T_l_f       == <<"-","l","f">>
T_l_g       == <<"-","l","g">>
T_lc_libf_a == <<"-","l",":","l","i","b","f",".","a">>
T_l_pthread == <<"-","l","p","t","h","r","e","a","d">>
T_pthread   == <<"-","p","t","h","r","e","a","d">>
T_whole     == <<"-","W","l",",","-","-","w","h","o","l","e","-","a","r","c","h","i","v","e">>
T_no_whole  == <<"-","W","l",",","-","-","n","o","-","w","h","o","l","e","-","a","r","c","h","i","v","e">>
T_whole_no_whole ==
    <<"-","W","l",",","-","-","w","h","o","l","e","-","a","r","c","h","i","v","e",
      ",","-","-","n","o","-","w","h","o","l","e","-","a","r","c","h","i","v","e">>
T_as_needed == <<"-","W","l",",","-","-","a","s","-","n","e","e","d","e","d">>

\* The token sets the inputs are drawn from: an input uses one of them.
Vocabularies ==
    { {T_L_o, T_l_f, T_lc_libf_a, T_whole, T_no_whole},
      {T_L_o, T_l_pthread, T_pthread, T_whole},
      {T_L_o, T_L_usr_l, T_l_f, T_l_g},
      {T_whole, T_no_whole, T_whole_no_whole, T_as_needed} }

Tokens == UNION Vocabularies

Inputs == UNION { UNION { [1..k -> V] : k \in 0..MaxLen } : V \in Vocabularies }

\* lib<name>.a files on disk: /o is outside the system roots, /usr/l inside.
FileSystems ==
    { { <<"/","o","/","l","i","b","f",".","a">>,
        <<"/","o","/","l","i","b","p","t","h","r","e","a","d",".","a">>,
        <<"/","u","s","r","/","l","/","l","i","b","f",".","a">>,
        <<"/","u","s","r","/","l","/","l","i","b","g",".","a">> } }

SystemRootChoices == { <<S_usr>> }
ForceChoices == { {}, {N_f, S_pthread} }
SystemLibChoices == { {}, {S_pthread} }

(***************************************************************************)
(* The classification pass as a state machine                              *)
(***************************************************************************)
\* No parse_cflags call is running.
NoCflags == cflags_output = <<>> /\ cflags = <<>> /\ cflags_seen = {}

\* No is_static_available call of its own is running.
NoProbe == probe_name = <<>> /\ probe_result = FALSE

\* No to_cargo_directives call is running.
NoDirectives == no_bundle = FALSE /\ directives = <<>>

\* No probe call is running and no parse call has returned.
NoQueries == queries = <<>> /\ ret = [tag |-> "none"] /\ returned = <<>>

\* The OS threads of the process.
MaxOsThreads == 2

OsThreads == 1..MaxOsThreads

\* An OS thread that is in no call of env.rs and owns no SpdkEnv.
IdleCaller ==
    [pc |-> "idle", held |-> 0, after_drop |-> FALSE, saw_env |-> FALSE,
     last |-> [op |-> "none", result |-> "none", value |-> FALSE]]

\* The library before spdk_env_init: no call of it is running.
FreshSpdkEnv == [eal |-> "fresh", init_running |-> 0, fini_running |-> 0]

\* env.rs at process start.
NoEnv ==
    /\ ENV_INITIALIZED = FALSE
    /\ env_thread = [t \in OsThreads |-> IdleCaller]
    /\ spdk_env = FreshSpdkEnv
    /\ env_calls = [builds |-> 0, dropped |-> FALSE]

\* The null pointer.
NULL == 0

\* An OS thread with no SPDK thread attached, in no call of thread.rs.
DetachedThread ==
    [pc |-> "idle", call |-> "none", size |-> 0, tls |-> NULL,
     owned |-> {}, dropping |-> NULL,
     last |-> [op |-> "none", result |-> "none", id |-> NULL],
     got |-> [fresh |-> FALSE, value |-> NULL]]

\* The thread library before spdk_thread_lib_init.
FreshThreadLib ==
    [initialized |-> FALSE, msg_mempool_size |-> 0, init_by |-> "none",
     threads |-> {},
     next_id |-> 1, inits |-> 0,
     finis |-> 0, init_running |-> 0, fini_running |-> 0]

\* thread.rs at process start.
ThreadsAtStart ==
    /\ THREAD_LIB_INITIALIZED = FALSE
    /\ os_thread = [t \in OsThreads |-> DetachedThread]
    /\ spdk_thread_lib = FreshThreadLib

\* thread.rs is not in use.
NoThreads ==
    /\ ThreadsAtStart
    /\ thread_calls = 0
    /\ init_calls = 0

\* The SPDK runtime wrappers are not in use.
NoRuntime == NoEnv /\ NoThreads

\* Nothing but the classifiers is in use.
NoOuter == NoQueries /\ NoRuntime

\* The locals of parse at its entry.
ParseEntry ==
    /\ pos = 0
    /\ lib_dirs = <<>>
    /\ flags = InitialParseState.flags
    /\ seen_libs = InitialParseState.seen_libs
    /\ lib_indices = InitialParseState.lib_indices
    /\ in_whole_archive_region = InitialParseState.in_whole_archive_region

\* A parser of one of the crates, configured, at the entry of parse on one
\* of the inputs.
Setup(parsers, inputs, forces, syslibs) ==
    /\ parser \in parsers
    /\ system_roots \in SystemRootChoices
    /\ force_whole_archive \in (IF parser = "pkgconf" THEN forces ELSE { {} })
    /\ system_libs \in (IF parser = "spdk_io_build" THEN syslibs ELSE { {} })
    /\ files \in FileSystems
    /\ pkg_config_output \in inputs
    /\ pc = (IF parser = "pkgconf" THEN "first_pass" ELSE "second_pass")
    /\ ParseEntry
    /\ NoCflags
    /\ NoProbe
    /\ NoDirectives
    /\ probe_calls = <<>>
    /\ NoOuter

Init ==
    Setup({"pkgconf", "spdk_io_build"}, Inputs, ForceChoices, SystemLibChoices)

\* The token the classification loop is at.
flag == pkg_config_output[pos + 1]

\* The local state of the running parse call.
State == ParseState(flags, seen_libs, lib_indices, in_whole_archive_region)

\* The loop body has run on the current token and left state st.
Consume(st) ==
    /\ flags' = st.flags
    /\ seen_libs' = st.seen_libs
    /\ lib_indices' = st.lib_indices
    /\ in_whole_archive_region' = st.in_whole_archive_region
    /\ pos' = pos + 1
    /\ probe_calls' = probe_calls \o (IF parser = "pkgconf"
                                      THEN PkgBodyProbes(State, flag)
                                      ELSE <<>>)
    /\ UNCHANGED <<config, pc, lib_dirs, others, outer, runtime>>

Scanning(p) ==
    /\ parser = p
    /\ pc = "second_pass"
    /\ pos < Len(pkg_config_output)

PkgFirstPass ==
    /\ parser = "pkgconf"
    /\ pc = "first_pass"
    /\ lib_dirs' = CollectLibDirs(pkg_config_output)
    /\ pc' = "second_pass"
    /\ UNCHANGED <<config, pos, flags, seen_libs, lib_indices,
                   in_whole_archive_region, others, probe_calls, outer, runtime>>

PkgSearchPath ==
    /\ Scanning("pkgconf")
    /\ PkgBranch(State, flag) = "SearchPath"
    /\ Consume(PkgBody(State, flag, lib_dirs))

PkgWl ==
    /\ Scanning("pkgconf")
    /\ PkgBranch(State, flag) = "Wl"
    /\ Consume(PkgBody(State, flag, lib_dirs))

PkgExplicitArchive ==
    /\ Scanning("pkgconf")
    /\ PkgBranch(State, flag) = "ExplicitArchive"
    /\ Consume(PkgBody(State, flag, lib_dirs))

PkgLib ==
    /\ Scanning("pkgconf")
    /\ PkgBranch(State, flag) = "Lib"
    /\ Consume(PkgBody(State, flag, lib_dirs))

PkgPthread ==
    /\ Scanning("pkgconf")
    /\ PkgBranch(State, flag) = "Pthread"
    /\ Consume(PkgBody(State, flag, lib_dirs))

PkgSkip ==
    /\ Scanning("pkgconf")
    /\ PkgBranch(State, flag) = "None"
    /\ Consume(PkgBody(State, flag, lib_dirs))

BldSearchPath ==
    /\ Scanning("spdk_io_build")
    /\ BldBranch(State, flag) = "SearchPath"
    /\ Consume(BldBody(State, flag))

BldWl ==
    /\ Scanning("spdk_io_build")
    /\ BldBranch(State, flag) = "Wl"
    /\ Consume(BldBody(State, flag))

BldExplicitArchive ==
    /\ Scanning("spdk_io_build")
    /\ BldBranch(State, flag) = "ExplicitArchive"
    /\ Consume(BldBody(State, flag))

BldLib ==
    /\ Scanning("spdk_io_build")
    /\ BldBranch(State, flag) = "Lib"
    /\ Consume(BldBody(State, flag))

BldPthread ==
    /\ Scanning("spdk_io_build")
    /\ BldBranch(State, flag) = "Pthread"
    /\ Consume(BldBody(State, flag))

BldSkip ==
    /\ Scanning("spdk_io_build")
    /\ BldBranch(State, flag) = "None"
    /\ Consume(BldBody(State, flag))

Next ==
    \/ PkgFirstPass
    \/ PkgSearchPath
    \/ PkgWl
    \/ PkgExplicitArchive
    \/ PkgLib
    \/ PkgPthread
    \/ PkgSkip
    \/ BldSearchPath
    \/ BldWl
    \/ BldExplicitArchive
    \/ BldLib
    \/ BldPthread
    \/ BldSkip

Spec == Init /\ [][Next]_vars

\* The classification loop has consumed the whole input.
Finished == pc = "second_pass" /\ pos = Len(pkg_config_output)

\* The step function agrees with the function of the whole input.
TypeOK ==
    /\ pos \in 0..Len(pkg_config_output)
    /\ (parser = "pkgconf" /\ Finished) => flags = PkgParse(pkg_config_output)

(***************************************************************************)
(* Vocabulary of the properties                                            *)
(***************************************************************************)
IsSearchPathToken(tok) == starts_with(tok, S_L)
IsWlToken(tok) == ~IsSearchPathToken(tok) /\ starts_with(tok, S_Wl)
IsLibToken(tok) ==
    ~IsSearchPathToken(tok) /\ ~IsWlToken(tok) /\ starts_with(tok, S_l)
IsPthreadToken(tok) == tok = S_dash_pthread

\* The name a -l<name> or -l:lib<name>.a token mentions, read off the token.
LibTokenName(tok) ==
    IF starts_with(tok, S_lcolon)
    THEN SubSeq(tok, Len(S_lcolon) + Len(S_lib) + 1, Len(tok) - Len(S_dot_a))
    ELSE SubSeq(tok, Len(S_l) + 1, Len(tok))

\* The positions of the input whose token mentions the library name.
Mentions(name) ==
    { k \in 1..Len(pkg_config_output) :
        \/ IsLibToken(pkg_config_output[k])
             /\ LibTokenName(pkg_config_output[k]) = name
        \/ IsPthreadToken(pkg_config_output[k]) /\ name = S_pthread }

LibMentions(name) ==
    { k \in Mentions(name) : IsLibToken(pkg_config_output[k]) }

\* The positions of the output that hold a Library entry for the name.
EntriesOf(name) ==
    { i \in 1..Len(flags) : flags[i].tag = "Library" /\ flags[i].name = name }

LibNames == { flags[i].name : i \in { j \in 1..Len(flags) : flags[j].tag = "Library" } }

(***************************************************************************)
(* C1: in both parsers, after every processed prefix of the input, the     *)
(* output holds at most one Library entry per library name, whether the    *)
(* name was mentioned by -l<name>, -l:lib<name>.a or -pthread.             *)
(***************************************************************************)
C1_OneEntryPerName ==
    \A i, j \in 1..Len(flags) :
        (/\ flags[i].tag = "Library"
         /\ flags[j].tag = "Library"
         /\ flags[i].name = flags[j].name) => i = j

\* pthread was mentioned by -pthread and by -lpthread, f by both -l forms,
\* the pass is over and each has its single entry.
C1_Witness ==
    /\ Finished
    /\ \E n \in {N_f, S_pthread} :
          /\ Cardinality({ k \in Mentions(n) : k <= pos }) >= 3
          /\ Cardinality({ pkg_config_output[k] : k \in Mentions(n) }) = 2
          /\ Cardinality(EntriesOf(n)) = 1
(***************************************************************************)
(* C2: during one pass the kind recorded for a library entry changes only  *)
(* by the step Static -> WholeArchive, and only when the token of the step *)
(* re-mentions that library while the region flag is true; no entry is     *)
(* removed, renamed or moved, and no other kind change happens.            *)
(***************************************************************************)
C2_OnlyStaticToWholeArchive ==
    [][ /\ Len(flags') >= Len(flags)
        /\ \A i \in 1..Len(flags) :
              \/ flags'[i] = flags[i]
              \/ /\ flags[i].tag = "Library"
                 /\ flags[i].kind = "Static"
                 /\ flags'[i] = Library(flags[i].name, "WholeArchive")
                 /\ in_whole_archive_region
                 /\ flags[i].name \in seen_libs
                 /\ IsLibToken(flag)
                 /\ LibTokenName(flag) = flags[i].name ]_vars

\* f was first mentioned by the first token, outside any region and not
\* forced, so its entry was created Static; it is WholeArchive now.
C2_Witness ==
    /\ pkg_config_output # <<>>
    /\ pkg_config_output[1] = T_l_f
    /\ N_f \notin force_whole_archive
    /\ pos >= 2
    /\ flags[1] = Library(N_f, "WholeArchive")
\* The text after "-Wl," of a -Wl, token.
WlArgs(tok) == SubSeq(tok, Len(S_Wl) + 1, Len(tok))

\* A begin marker: a -Wl, token with --whole-archive and without
\* --no-whole-archive. An end marker: a -Wl, token with --no-whole-archive.
IsBeginMarker(tok) ==
    /\ IsWlToken(tok)
    /\ contains(WlArgs(tok), S_whole)
    /\ ~contains(WlArgs(tok), S_no_whole)

IsEndMarker(tok) == IsWlToken(tok) /\ contains(WlArgs(tok), S_no_whole)

\* Token k of the input lies inside a whole-archive region: a begin marker
\* precedes it with no end marker in between.
InRegionAt(k) ==
    \E i \in 1..(k - 1) :
        /\ IsBeginMarker(pkg_config_output[i])
        /\ \A j \in (i + 1)..(k - 1) : ~IsEndMarker(pkg_config_output[j])

\* Static availability of a name over the -L directories of the whole input.
Available(name) == is_static_available(name, CollectLibDirs(pkg_config_output))

(***************************************************************************)
(* C3: a library with an available static archive (pkgconf; in             *)
(* spdk_io_build, a library outside system_libs) that is mentioned exactly *)
(* twice, by -l<name> or -l:lib<name>.a tokens, once outside and once      *)
(* inside a whole-archive region, ends with exactly one Library entry of   *)
(* kind WholeArchive, whichever mention comes first.                       *)
(***************************************************************************)
C3_UpgradeEitherOrder ==
    Finished =>
        \A n \in LibNames :
            (/\ Cardinality(Mentions(n)) = 2
             /\ Mentions(n) = LibMentions(n)
             /\ \E a, b \in Mentions(n) : ~InRegionAt(a) /\ InRegionAt(b)
             /\ \/ parser = "pkgconf" /\ Available(n)
                \/ parser = "spdk_io_build" /\ ~is_system_lib(n))
            => /\ Cardinality(EntriesOf(n)) = 1
               /\ \A i \in EntriesOf(n) : flags[i].kind = "WholeArchive"

\* pkgconf, f not forced: -l:libf.a inside the region came first, -lf after
\* the region was closed, and the single entry is WholeArchive.
C3_Witness ==
    /\ Finished
    /\ parser = "pkgconf"
    /\ force_whole_archive = {}
    /\ Available(N_f)
    /\ \E a, b \in 1..Len(pkg_config_output) :
          /\ a < b
          /\ Mentions(N_f) = {a, b}
          /\ pkg_config_output[a] = T_lc_libf_a /\ InRegionAt(a)
          /\ pkg_config_output[b] = T_l_f /\ ~InRegionAt(b)
    /\ Cardinality(EntriesOf(N_f)) = 1
    /\ \A i \in EntriesOf(N_f) : flags[i].kind = "WholeArchive"

\* pkgconf, f not forced: -lf outside the region came first, -l:libf.a
\* inside the region second, and the entry was upgraded.
C3_WitnessUpgrade ==
    /\ Finished
    /\ parser = "pkgconf"
    /\ force_whole_archive = {}
    /\ Available(N_f)
    /\ \E a, b \in 1..Len(pkg_config_output) :
          /\ a < b
          /\ Mentions(N_f) = {a, b}
          /\ pkg_config_output[a] = T_l_f /\ ~InRegionAt(a)
          /\ pkg_config_output[b] = T_lc_libf_a /\ InRegionAt(b)
    /\ \A i \in EntriesOf(N_f) : flags[i].kind = "WholeArchive"
(***************************************************************************)
(* C4: in pkgconf parse, the first mention of a library by a -l or -l:     *)
(* token pushes its entry with kind WholeArchive when a static archive is  *)
(* available and (the region flag is true or the name is forced), Static   *)
(* when a static archive is available and neither holds, and Default when  *)
(* no static archive is available, whatever the region flag and the force  *)
(* set say.                                                                *)
(***************************************************************************)
C4_FirstMentionKind ==
    [][ (/\ parser = "pkgconf"
         /\ pc = "second_pass"
         /\ pos' = pos + 1
         /\ IsLibToken(flag)
         /\ \A k \in Mentions(LibTokenName(flag)) : k > pos)
        => LET n == LibTokenName(flag)
               kind == IF Available(n)
                          /\ (in_whole_archive_region \/ n \in force_whole_archive)
                       THEN "WholeArchive"
                       ELSE IF Available(n) THEN "Static"
                       ELSE "Default"
           IN flags' = Append(flags, Library(n, kind)) ]_vars

\* f is forced and available, no region was ever opened, and its entry is
\* WholeArchive.
C4_Witness ==
    /\ parser = "pkgconf"
    /\ N_f \in force_whole_archive
    /\ Available(N_f)
    /\ \A k \in 1..pos : ~IsBeginMarker(pkg_config_output[k])
    /\ \E i \in EntriesOf(N_f) : flags[i].kind = "WholeArchive"

\* f is forced and first mentioned inside the region, but no archive is
\* available: its entry is Default.
C4_WitnessDefault ==
    /\ parser = "pkgconf"
    /\ N_f \in force_whole_archive
    /\ ~Available(N_f)
    /\ \E k \in Mentions(N_f) :
          /\ k <= pos
          /\ \A m \in Mentions(N_f) : k <= m
          /\ InRegionAt(k)
    /\ \E i \in EntriesOf(N_f) : flags[i].kind = "Default"
(***************************************************************************)
(* C5: in pkgconf parse, a Library entry of kind Default keeps that kind   *)
(* (and its name and position) in every later step of the pass, also when *)
(* the library is re-mentioned inside a whole-archive region.              *)
(***************************************************************************)
C5_DefaultStays ==
    [][ parser = "pkgconf" =>
            \A i \in 1..Len(flags) :
                (flags[i].tag = "Library" /\ flags[i].kind = "Default")
                => (i <= Len(flags') /\ flags'[i] = flags[i]) ]_vars

\* f has no available archive, was mentioned first and then again inside
\* the region, and its entry is still Default.
C5_Witness ==
    /\ parser = "pkgconf"
    /\ ~Available(N_f)
    /\ \E a, b \in LibMentions(N_f) : a < b /\ b <= pos /\ InRegionAt(b)
    /\ \E i \in EntriesOf(N_f) : flags[i].kind = "Default"
\* The first mention of the name is a -l or -l: token (not -pthread).
FirstMentionIsLibToken(name) ==
    \E k \in LibMentions(name) : \A m \in Mentions(name) : k <= m

Skeleton(e) ==
    [tag |-> e.tag,
     text |-> IF e.tag = "SearchPath" THEN e.path
              ELSE IF e.tag = "Library" THEN e.name
              ELSE e.arg]

\* The entries the first k tokens create, in token order: a SearchPath per
\* -L token, a LinkerArg per passed-through -Wl, token, and a Library per
\* first mention of a library name.
RECURSIVE CreatedBy(_)
CreatedBy(k) ==
    IF k = 0 THEN <<>>
    ELSE LET tok == pkg_config_output[k]
             name == IF IsPthreadToken(tok) THEN S_pthread ELSE LibTokenName(tok)
         IN CreatedBy(k - 1) \o
            (IF IsSearchPathToken(tok)
             THEN <<[tag |-> "SearchPath", text |-> SubSeq(tok, Len(S_L) + 1, Len(tok))]>>
             ELSE IF IsWlToken(tok)
             THEN (IF PassThrough(WlArgs(tok))
                   THEN <<[tag |-> "LinkerArg", text |-> tok]>>
                   ELSE <<>>)
             ELSE IF /\ IsLibToken(tok) \/ IsPthreadToken(tok)
                     /\ \A m \in Mentions(name) : m >= k
             THEN <<[tag |-> "Library", text |-> name]>>
             ELSE <<>>)

(***************************************************************************)
(* C7: after every consumed prefix, in both parsers, the output lists its  *)
(* entries in the order of the tokens that created them, a Library entry   *)
(* being created by the first mention of its name; so an upgrade by a      *)
(* later mention changes neither the position of an entry nor the length   *)
(* of the output.                                                          *)
(***************************************************************************)
C7_OutputInTokenOrder ==
    [i \in 1..Len(flags) |-> Skeleton(flags[i])] = CreatedBy(pos)

\* -lf came first and created entry 1 as Static; other entries followed;
\* a later mention inside the region upgraded entry 1 where it stands.
C7_Witness ==
    /\ parser = "pkgconf"
    /\ force_whole_archive = {}
    /\ pos >= 3
    /\ pkg_config_output[1] = T_l_f
    /\ Len(flags) >= 2
    /\ flags[1] = Library(N_f, "WholeArchive")
IsSearchPathEntry(e) == e.tag = "SearchPath"

(***************************************************************************)
(* C8: after every consumed prefix, in both parsers, the SearchPath        *)
(* entries of the output are, in order and one per token, the values of    *)
(* the -L tokens consumed so far; a repeated directory is kept as often as *)
(* it occurs.                                                              *)
(***************************************************************************)
C8_SearchPathPerToken ==
    LET paths == SelectSeq(flags, IsSearchPathEntry)
        toks == SelectSeq(SubSeq(pkg_config_output, 1, pos), IsSearchPathToken)
    IN /\ Len(paths) = Len(toks)
       /\ \A i \in 1..Len(paths) :
              paths[i].path = SubSeq(toks[i], Len(S_L) + 1, Len(toks[i]))

\* The input named /o, then /usr/l, then /o again, and the output holds
\* the three SearchPath entries in that order.
C8_Witness ==
    /\ Finished
    /\ SelectSeq(pkg_config_output, IsSearchPathToken) = <<T_L_o, T_L_usr_l, T_L_o>>
    /\ SelectSeq(flags, IsSearchPathEntry)
           = << SearchPath(<<"/","o">>), SearchPath(<<"/","u","s","r","/","l">>),
                SearchPath(<<"/","o">>) >>
IsLibraryEntry(e) == e.tag = "Library"

\* The sequence s with its element i moved to position j.
Move(s, i, j) ==
    LET rest == SubSeq(s, 1, i - 1) \o SubSeq(s, i + 1, Len(s))
    IN SubSeq(rest, 1, j - 1) \o <<s[i]>> \o SubSeq(rest, j, Len(rest))

(***************************************************************************)
(* C9: in pkgconf parse the static-availability probe of every library     *)
(* sees the directories of all -L tokens of the whole input, also of those *)
(* after the library's token: during the classification loop lib_dirs      *)
(* holds the value of every -L token, and moving any -L token to any other *)
(* position of the input leaves the Library entries of the result, names   *)
(* and kinds, as they are.                                                 *)
(***************************************************************************)
C9_AllSearchDirsProbed ==
    (parser = "pkgconf" /\ pc = "second_pass") =>
        /\ LET toks == SelectSeq(pkg_config_output, IsSearchPathToken)
           IN lib_dirs = [i \in 1..Len(toks) |->
                             SubSeq(toks[i], Len(S_L) + 1, Len(toks[i]))]
        /\ Finished =>
               \A i, j \in 1..Len(pkg_config_output) :
                   IsSearchPathToken(pkg_config_output[i]) =>
                       SelectSeq(PkgParse(Move(pkg_config_output, i, j)),
                                 IsLibraryEntry)
                           = SelectSeq(flags, IsLibraryEntry)

\* The only -L/o token comes after the first mention of f, and f was
\* still found to have a static archive.
C9_Witness ==
    /\ Finished
    /\ parser = "pkgconf"
    /\ \E a \in LibMentions(N_f) :
          /\ \A m \in Mentions(N_f) : a <= m
          /\ \A k \in 1..Len(pkg_config_output) :
                 pkg_config_output[k] = T_L_o => k > a
          /\ \E k \in 1..Len(pkg_config_output) : pkg_config_output[k] = T_L_o
    /\ \E i \in EntriesOf(N_f) : flags[i].kind # "Default"
(***************************************************************************)
(* C10: in both parsers the region flag is false before the first token,   *)
(* and after every consumed prefix it is true exactly when the prefix      *)
(* holds a begin marker (-Wl, with --whole-archive and without             *)
(* --no-whole-archive) that no end marker (-Wl, with --no-whole-archive)   *)
(* follows: begin sets it, end clears it, every other token leaves it      *)
(* alone; it is a boolean, so one end marker closes any number of begin    *)
(* markers and an unclosed region stays open to the end of the input.      *)
(***************************************************************************)
C10_RegionFlag ==
    /\ pos = 0 => in_whole_archive_region = FALSE
    /\ in_whole_archive_region = InRegionAt(pos + 1)

\* Two begin markers, then one end marker: the region is closed.
C10_Witness ==
    /\ pos = 3
    /\ IsBeginMarker(pkg_config_output[1])
    /\ IsBeginMarker(pkg_config_output[2])
    /\ IsEndMarker(pkg_config_output[3])
    /\ in_whole_archive_region = FALSE

\* A region opened and never closed is open when the input ends, with
\* other tokens consumed after the begin marker.
C10_WitnessOpenAtEnd ==
    /\ Finished
    /\ pos >= 3
    /\ IsBeginMarker(pkg_config_output[1])
    /\ \A k \in 2..pos : ~IsWlToken(pkg_config_output[k])
    /\ in_whole_archive_region = TRUE
(***************************************************************************)
(* Linker sub-argument tokens: the pass over -Wl, tokens                   *)
(***************************************************************************)
MaxWl == 3

T_export_dynamic ==
    <<"-","W","l",",","-","-","e","x","p","o","r","t","-","d","y","n","a","m",
      "i","c">>
T_whole_export ==
    <<"-","W","l",",","-","-","w","h","o","l","e","-","a","r","c","h","i","v",
      "e",",","-","-","e","x","p","o","r","t","-","d","y","n","a","m","i",
      "c">>
T_no_as_needed ==
    <<"-","W","l",",","-","-","n","o","-","a","s","-","n","e","e","d","e",
      "d">>
T_rpath_as_needed ==
    <<"-","W","l",",","-","r","p","a","t","h",",","/","a","s","-","n","e","e",
      "d","e","d">>

WlVocabulary ==
    {T_export_dynamic, T_as_needed, T_whole_export, T_no_as_needed,
     T_rpath_as_needed, T_whole, T_l_f}

WlInputs == UNION { [1..k -> WlVocabulary] : k \in 0..MaxWl }

WlInit == Setup({"pkgconf", "spdk_io_build"}, WlInputs, { {} }, { {} })

WlNext ==
    \/ PkgFirstPass
    \/ PkgWl
    \/ PkgLib
    \/ BldWl
    \/ BldLib

WlSpec == WlInit /\ [][WlNext]_vars

IsLinkerArgEntry(e) == e.tag = "LinkerArg"

(***************************************************************************)
(* C11 as stated: after every consumed prefix, in both parsers, no         *)
(* LinkerArg entry of the output has a text that contains --whole-archive  *)
(* or --no-whole-archive, also when the marker shares its -Wl, token with  *)
(* an allow-listed sub-argument.                                           *)
(***************************************************************************)
C11_NoMarkerEmitted ==
    \A i \in 1..Len(flags) :
        flags[i].tag = "LinkerArg" =>
            /\ ~contains(flags[i].arg, S_whole)
            /\ ~contains(flags[i].arg, S_no_whole)

\* The sub-arguments of the allow-list, as the spec names them.
S_dd_export_dynamic == <<"-","-">> \o S_export_dynamic
S_dd_as_needed == <<"-","-">> \o S_as_needed
IsAllowListed(tok) ==
    IsWlToken(tok) /\ WlArgs(tok) \in {S_dd_export_dynamic, S_dd_as_needed}

(***************************************************************************)
(* C12 as stated: after every consumed prefix, in both parsers, the        *)
(* LinkerArg entries of the output are, in order, the consumed -Wl, tokens *)
(* whose sub-argument is --export-dynamic or --as-needed, each with the    *)
(* whole token as its text; no other -Wl, token has an entry.              *)
(***************************************************************************)
C12_ExactAllowList ==
    LET args == SelectSeq(flags, IsLinkerArgEntry)
        toks == SelectSeq(SubSeq(pkg_config_output, 1, pos), IsAllowListed)
    IN args = [i \in 1..Len(toks) |-> LinkerArg(toks[i])]
(***************************************************************************)
(* is_static_available as a function of its arguments, the system roots    *)
(* and the filesystem                                                      *)
(***************************************************************************)
MaxDirs == 2

D_o       == <<"/","o">>
D_usr     == <<"/","u","s","r">>
D_usr_sl  == <<"/","u","s","r","/">>
D_usr_l   == <<"/","u","s","r","/","l">>
D_usrl    == <<"/","u","s","r","l">>

ProbeDirs == {D_o, D_usr, D_usr_sl, D_usr_l, D_usrl}

\* libf.a in any of /o, /usr, /usr/l, /usrl; libf.a below /o but not in it,
\* and another library's archive in /o, are always there.
ProbeFileSystems ==
    { fs \cup { <<"/","o","/","s","/","l","i","b","f",".","a">>,
                <<"/","o","/","l","i","b","g",".","a">> } :
        fs \in SUBSET { <<"/","o","/","l","i","b","f",".","a">>,
                        <<"/","u","s","r","/","l","i","b","f",".","a">>,
                        <<"/","u","s","r","/","l","/","l","i","b","f",".",
                          "a">>,
                        <<"/","u","s","r","l","/","l","i","b","f",".",
                          "a">> } }

ProbeRootChoices == { <<>>, <<D_usr>>, <<D_o, D_usr>> }

ProbeInit ==
    /\ parser = "pkgconf"
    /\ system_roots \in ProbeRootChoices
    /\ force_whole_archive = {}
    /\ system_libs = {}
    /\ files \in ProbeFileSystems
    /\ pkg_config_output = <<>>
    /\ pc = "call"
    /\ pos = 0
    /\ lib_dirs \in UNION { [1..k -> ProbeDirs] : k \in 0..MaxDirs }
    /\ flags = <<>>
    /\ seen_libs = {}
    /\ lib_indices = <<>>
    /\ in_whole_archive_region = FALSE
    /\ probe_name \in {N_f, N_g}
    /\ probe_result = FALSE
    /\ NoCflags
    /\ NoDirectives
    /\ probe_calls = <<>>
    /\ NoOuter

\* The call is_static_available(probe_name, lib_dirs) returns.
IsStaticAvailable ==
    /\ pc = "call"
    /\ parser = "pkgconf"
    /\ probe_result' = is_static_available(probe_name, lib_dirs)
    /\ pc' = "returned"
    /\ UNCHANGED <<config, pos, lib_dirs, flags, seen_libs, lib_indices,
                   in_whole_archive_region, cflags_output, cflags, cflags_seen,
                   probe_name, no_bundle, directives, probe_calls, outer, runtime>>

ProbeNext == IsStaticAvailable

ProbeSpec == ProbeInit /\ [][ProbeNext]_vars

\* The text of a directory path without a trailing separator.
Trim(d) == IF Len(d) > 1 /\ ends_with(d, <<"/">>) THEN SubSeq(d, 1, Len(d) - 1) ELSE d

\* The file lib<name>.a exists directly in directory d.
ArchiveDirectlyIn(name, d) ==
    (Trim(d) \o <<"/">> \o S_lib \o name \o S_dot_a) \in files

\* Directory d is the root or lies below it, component by component.
EqualOrNestedUnder(d, root) ==
    Trim(d) = root \/ starts_with(d, root \o <<"/">>)

(***************************************************************************)
(* C13: is_static_available(name, dirs) returns true exactly when some     *)
(* directory d of dirs holds the file lib<name>.a directly and d is        *)
(* neither equal to nor nested under any configured system root, nesting   *)
(* being decided on whole path components (/usrl is not under /usr); an    *)
(* archive present in both a system and a non-system directory makes the   *)
(* library available.                                                      *)
(***************************************************************************)
C13_StaticAvailableIff ==
    pc = "returned" =>
        probe_result =
            \E i \in 1..Len(lib_dirs) :
                /\ ArchiveDirectlyIn(probe_name, lib_dirs[i])
                /\ \A j \in 1..Len(system_roots) :
                       ~EqualOrNestedUnder(lib_dirs[i], system_roots[j])

\* /usr is a system root, libf.a exists in /usr/l and in /usrl only, the
\* directories are /usr/l and /usrl, and f is available.
C13_Witness ==
    /\ pc = "returned"
    /\ system_roots = <<D_usr>>
    /\ probe_name = N_f
    /\ lib_dirs = <<D_usr_l, D_usrl>>
    /\ ArchiveDirectlyIn(N_f, D_usr_l)
    /\ ArchiveDirectlyIn(N_f, D_usrl)
    /\ ~ArchiveDirectlyIn(N_f, D_o)
    /\ probe_result = TRUE

\* libf.a exists in the system directory /usr/l and in /o: f is available
\* whichever directory comes first.
C13_WitnessBoth ==
    /\ pc = "returned"
    /\ system_roots = <<D_usr>>
    /\ probe_name = N_f
    /\ lib_dirs = <<D_usr_l, D_o>>
    /\ ArchiveDirectlyIn(N_f, D_usr_l)
    /\ ArchiveDirectlyIn(N_f, D_o)
    /\ probe_result = TRUE

\* libf.a exists under the system root only (in /usr and /usr/l): f is not
\* available.
C13_WitnessSystemOnly ==
    /\ pc = "returned"
    /\ system_roots = <<D_usr>>
    /\ probe_name = N_f
    /\ lib_dirs = <<D_usr_sl, D_usr_l>>
    /\ ArchiveDirectlyIn(N_f, D_usr)
    /\ ArchiveDirectlyIn(N_f, D_usr_l)
    /\ probe_result = FALSE
(***************************************************************************)
(* pkgconf parse over libraries whose archives lie under a system root     *)
(***************************************************************************)
MaxSys == 4

SysVocabulary == {T_L_usr_l, T_L_o, T_l_g, T_l_f, T_whole}

SysInputs == UNION { [1..k -> SysVocabulary] : k \in 0..MaxSys }

SysForceChoices == { {}, {N_f, N_g} }

SysInit == Setup({"pkgconf"}, SysInputs, SysForceChoices, { {} })

SysNext ==
    \/ PkgFirstPass
    \/ PkgSearchPath
    \/ PkgWl
    \/ PkgLib

SysSpec == SysInit /\ [][SysNext]_vars

\* The directories the -L tokens of the whole input name.
SearchDirs ==
    { SubSeq(pkg_config_output[k], Len(S_L) + 1, Len(pkg_config_output[k])) :
        k \in { j \in 1..Len(pkg_config_output) :
                  IsSearchPathToken(pkg_config_output[j]) } }

\* The -L directories that hold lib<name>.a.
ArchiveDirs(name) == { d \in SearchDirs : ArchiveDirectlyIn(name, d) }

IsSystemDir(d) ==
    \E j \in 1..Len(system_roots) : EqualOrNestedUnder(d, system_roots[j])

(***************************************************************************)
(* C14: in pkgconf parse, after every consumed prefix, a library whose     *)
(* static archive exists in some -L directory of the input, and only in    *)
(* -L directories that lie under a configured system root, has an entry    *)
(* of kind Default, also when it was mentioned inside a whole-archive      *)
(* region or is listed in force_whole_archive.                             *)
(***************************************************************************)
C14_SystemOnlyIsDefault ==
    parser = "pkgconf" =>
        \A i \in 1..Len(flags) :
            (/\ flags[i].tag = "Library"
             /\ ArchiveDirs(flags[i].name) # {}
             /\ \A d \in ArchiveDirs(flags[i].name) : IsSystemDir(d))
            => flags[i].kind = "Default"

\* g is forced, its archive exists in /usr/l only, /usr/l and /o are both
\* search directories, the first mention of g lies inside the region, and
\* the entry of g is Default at the end of the pass.
C14_Witness ==
    /\ Finished
    /\ N_g \in force_whole_archive
    /\ SearchDirs = {D_usr_l, D_o}
    /\ ArchiveDirs(N_g) = {D_usr_l}
    /\ \E k \in Mentions(N_g) :
          /\ \A m \in Mentions(N_g) : k <= m
          /\ InRegionAt(k)
    /\ \E i \in EntriesOf(N_g) : flags[i].kind = "Default"
(***************************************************************************)
(* pkgconf::PkgConfigParser::parse_cflags                                  *)
(***************************************************************************)
S_I == <<"-","I">>
S_D == <<"-","D">>

IncludePath(path) == [tag |-> "IncludePath", path |-> path]
Define(key, value) == [tag |-> "Define", key |-> key, value |-> value]

\* Mutant: the text is split at the last occurrence of c.
split_once_Last(s, c) ==
    IF \E i \in 1..Len(s) : s[i] = c
    THEN LET i == CHOOSE k \in 1..Len(s) :
                      s[k] = c /\ \A j \in (k + 1)..Len(s) : s[j] # c
         IN Some(<<SubSeq(s, 1, i - 1), SubSeq(s, i + 1, Len(s))>>)
    ELSE None

\* str::split_once: the text before and after the first occurrence of c.
split_once(s, c) ==
    IF \E i \in 1..Len(s) : s[i] = c
    THEN LET i == CHOOSE k \in 1..Len(s) :
                      s[k] = c /\ \A j \in 1..(k - 1) : s[j] # c
         IN Some(<<SubSeq(s, 1, i - 1), SubSeq(s, i + 1, Len(s))>>)
    ELSE None

\* The locals of one parse_cflags call.
CflagsState(fl, sn) == [flags |-> fl, seen |-> sn]

InitialCflagsState == CflagsState(<<>>, {})

\* Which branch of the if / else-if chain takes the token; the -D branch is
\* taken only when seen.insert(token) reports a new token.
CfBranch(st, tok) ==
    IF strip_prefix(tok, S_I).some THEN "IncludePath"
    ELSE IF strip_prefix(tok, S_D).some /\ tok \notin st.seen THEN "Define"
    ELSE "None"

\* parse_cflags, -I branch
CfOnIncludePath(st, tok, path) ==
    IF tok \notin st.seen
    THEN CflagsState(Append(st.flags, IncludePath(path)), st.seen \cup {tok})
    ELSE st

\* The Define a -D<define> token gives.
CfDefineOf(define) ==
    LET kv == split_once(define, "=")
    IN IF kv.some THEN Define(kv.val[1], Some(kv.val[2]))
       ELSE Define(define, None)

\* Mutant: a define whose macro name already has an entry is dropped.
CfOnDefine_DedupOnKey(st, tok, define) ==
    IF \E i \in 1..Len(st.flags) :
           /\ st.flags[i].tag = "Define"
           /\ st.flags[i].key = CfDefineOf(define).key
    THEN CflagsState(st.flags, st.seen \cup {tok})
    ELSE CflagsState(Append(st.flags, CfDefineOf(define)), st.seen \cup {tok})

\* parse_cflags, -D branch
CfOnDefine(st, tok, define) ==
    CflagsState(Append(st.flags, CfDefineOf(define)), st.seen \cup {tok})

\* The body of the loop of parse_cflags, for one token.
CfBody(st, tok) ==
    LET b == CfBranch(st, tok)
    IN CASE b = "IncludePath" ->
                CfOnIncludePath(st, tok, strip_prefix(tok, S_I).val)
         [] b = "Define" -> CfOnDefine(st, tok, strip_prefix(tok, S_D).val)
         [] OTHER -> st

RECURSIVE CfLoop(_, _)
CfLoop(st, toks) ==
    IF toks = <<>> THEN st ELSE CfLoop(CfBody(st, Head(toks)), Tail(toks))

\* parse_cflags as a function of its input.
ParseCflags(toks) == CfLoop(InitialCflagsState, toks).flags

MaxCflags == 5

C_I_a     == <<"-","I","/","a">>
C_I_b     == <<"-","I","/","b">>
C_I       == <<"-","I">>
C_D_X     == <<"-","D","X">>
C_D_X_1   == <<"-","D","X","=","1">>
C_D_X_1_2 == <<"-","D","X","=","1","=","2">>
C_D_X_eq  == <<"-","D","X","=">>
C_std     == <<"-","s","t","d","=","c","1","1">>
C_Wall    == <<"-","W","a","l","l">>

\* The token sets the inputs of parse_cflags are drawn from.
CfVocabularies ==
    { {C_I_a, C_I_b, C_D_X, C_std, C_Wall},
      {C_D_X, C_D_X_1, C_D_X_1_2, C_D_X_eq, C_I} }

CfInputs ==
    UNION { UNION { [1..k -> V] : k \in 0..MaxCflags } : V \in CfVocabularies }

\* A pkgconf parser at the entry of parse_cflags on one of the inputs.
CfSetup(inputs) ==
    /\ parser = "pkgconf"
    /\ system_roots \in SystemRootChoices
    /\ force_whole_archive = {}
    /\ system_libs = {}
    /\ files \in FileSystems
    /\ pkg_config_output = <<>>
    /\ pc = "parse_cflags"
    /\ ParseEntry
    /\ cflags_output \in inputs
    /\ cflags = InitialCflagsState.flags
    /\ cflags_seen = InitialCflagsState.seen
    /\ NoProbe
    /\ NoDirectives
    /\ probe_calls = <<>>
    /\ NoOuter

\* The token the loop of parse_cflags is at.
token == cflags_output[pos + 1]

CfState == CflagsState(cflags, cflags_seen)

CfConsume(st) ==
    /\ cflags' = st.flags
    /\ cflags_seen' = st.seen
    /\ pos' = pos + 1
    /\ UNCHANGED <<config, pc, lib_dirs, flags, seen_libs, lib_indices,
                   in_whole_archive_region, cflags_output, probe_name,
                   probe_result, no_bundle, directives, probe_calls, outer, runtime>>

CfScanning == pc = "parse_cflags" /\ pos < Len(cflags_output)

CfIncludePath ==
    /\ CfScanning
    /\ CfBranch(CfState, token) = "IncludePath"
    /\ CfConsume(CfBody(CfState, token))

CfDefine ==
    /\ CfScanning
    /\ CfBranch(CfState, token) = "Define"
    /\ CfConsume(CfBody(CfState, token))

CfSkip ==
    /\ CfScanning
    /\ CfBranch(CfState, token) = "None"
    /\ CfConsume(CfBody(CfState, token))

CfInit == CfSetup(CfInputs)

CfNext ==
    \/ CfIncludePath
    \/ CfDefine
    \/ CfSkip

CfSpec == CfInit /\ [][CfNext]_vars

\* The loop of parse_cflags has consumed the whole input.
CfFinished == pc = "parse_cflags" /\ pos = Len(cflags_output)

\* The step function of parse_cflags agrees with the function of the input.
CfTypeOK ==
    /\ pc = "parse_cflags" => pos \in 0..Len(cflags_output)
    /\ CfFinished => cflags = ParseCflags(cflags_output)
\* CompilerFlag::to_clang_arg
to_clang_arg(f) ==
    IF f.tag = "IncludePath" THEN S_I \o f.path
    ELSE IF ~f.value.some THEN S_D \o f.key
    ELSE S_D \o f.key \o <<"=">> \o f.value.val

IsCflagToken(tok) == starts_with(tok, S_I) \/ starts_with(tok, S_D)

\* Token k of the input of parse_cflags does not occur before position k.
IsFirstOccurrence(k) == \A j \in 1..(k - 1) : cflags_output[j] # cflags_output[k]

\* The distinct -I and -D tokens among the first k tokens, each at its
\* first occurrence.
RECURSIVE FirstOccurrences(_)
FirstOccurrences(k) ==
    IF k = 0 THEN <<>>
    ELSE FirstOccurrences(k - 1) \o
         (IF IsCflagToken(cflags_output[k]) /\ IsFirstOccurrence(k)
          THEN <<cflags_output[k]>>
          ELSE <<>>)

(***************************************************************************)
(* C18: after every consumed prefix, the output of parse_cflags has        *)
(* exactly one entry per distinct -I / -D token of the prefix, in the      *)
(* order of the tokens' first occurrences, each entry being the one that   *)
(* renders back to its token; tokens that differ as text, such as -DX and  *)
(* -DX=1, keep separate entries.                                           *)
(***************************************************************************)
C18_DedupOnTokenText ==
    pc = "parse_cflags" =>
        [i \in 1..Len(cflags) |-> to_clang_arg(cflags[i])] = FirstOccurrences(pos)

\* -DX, -DX=1 and -DX again: two entries, in the order of first occurrence.
C18_Witness ==
    /\ CfFinished
    /\ Len(cflags_output) >= 3
    /\ cflags_output[1] = C_D_X
    /\ cflags_output[2] = C_D_X_1
    /\ \A k \in 3..Len(cflags_output) : cflags_output[k] = C_D_X
    /\ cflags = <<Define(<<"X">>, None), Define(<<"X">>, Some(<<"1">>))>>

\* The flag a first occurrence of token tok gives, as the claim states it.
Classified(tok, e) ==
    LET rest == SubSeq(tok, 3, Len(tok))
    IN IF starts_with(tok, S_I) THEN e = IncludePath(rest)
       ELSE /\ e.tag = "Define"
            /\ \A i \in 1..Len(e.key) : e.key[i] # "="
            /\ IF \E i \in 1..Len(rest) : rest[i] = "="
               THEN e.value.some /\ rest = e.key \o <<"=">> \o e.value.val
               ELSE e.value = None /\ rest = e.key

(***************************************************************************)
(* C19: a step of parse_cflags classifies its token on its own: the first  *)
(* occurrence of -I<path> appends IncludePath(path), the first occurrence  *)
(* of -D<name> appends Define(name, None), the first occurrence of         *)
(* -D<name>=<value> appends Define(name, Some(value)) with the split at    *)
(* the first = (later = characters stay in the value), and any other token *)
(* appends nothing.                                                        *)
(***************************************************************************)
C19_ClassifiesEachToken ==
    [][ (pc = "parse_cflags" /\ pos' = pos + 1) =>
            IF IsCflagToken(token) /\ IsFirstOccurrence(pos + 1)
            THEN /\ Len(cflags') = Len(cflags) + 1
                 /\ SubSeq(cflags', 1, Len(cflags)) = cflags
                 /\ Classified(token, cflags'[Len(cflags')])
            ELSE cflags' = cflags ]_vars

\* -DX=1=2 was consumed and gave Define(X, Some(1=2)).
C19_Witness ==
    /\ pc = "parse_cflags"
    /\ pos >= 2
    /\ cflags_output[pos] = C_D_X_1_2
    /\ IsFirstOccurrence(pos)
    /\ cflags[Len(cflags)] = Define(<<"X">>, Some(<<"1","=","2">>))

\* The scenario of the spec: -I/a -std=c11 -DX -Wall -I/b.
C19_WitnessScenario ==
    /\ CfFinished
    /\ cflags_output = <<C_I_a, C_std, C_D_X, C_Wall, C_I_b>>
    /\ cflags = <<IncludePath(<<"/","a">>), Define(<<"X">>, None),
                  IncludePath(<<"/","b">>)>>
(***************************************************************************)
(* parse and parse_cflags over inputs with tokens of no recognised form    *)
(***************************************************************************)
MaxTotal == 5

J_Wl == <<"-","W","l">>

TotalVocabulary == {T_L_o, T_l_f, T_whole, J_Wl, C_std}

TotalInputs == UNION { [1..k -> TotalVocabulary] : k \in 0..MaxTotal }

TotalInit ==
    \/ Setup({"pkgconf", "spdk_io_build"}, TotalInputs, { {} }, { {} })
    \/ CfSetup(CfInputs)

TotalNext ==
    \/ PkgFirstPass
    \/ PkgSearchPath
    \/ PkgWl
    \/ PkgLib
    \/ PkgSkip
    \/ BldSearchPath
    \/ BldWl
    \/ BldLib
    \/ BldSkip
    \/ CfIncludePath
    \/ CfDefine
    \/ CfSkip

TotalSpec == TotalInit /\ [][TotalNext]_vars

\* A token of none of the forms parse recognises.
IsUnrecognised(tok) ==
    /\ ~starts_with(tok, S_L)
    /\ ~starts_with(tok, S_Wl)
    /\ ~starts_with(tok, S_l)
    /\ tok # S_dash_pthread

\* Every index kept for an in-place upgrade points at the Library entry of
\* its name inside the output.
UpgradeIndexInOutput ==
    \A n \in DOMAIN lib_indices :
        /\ lib_indices[n] \in 0..(Len(flags) - 1)
        /\ flags[lib_indices[n] + 1].tag = "Library"
        /\ flags[lib_indices[n] + 1].name = n

\* A call that has tokens left can take its next step.
CallProceeds ==
    /\ (pc = "first_pass" \/ (pc = "second_pass" /\ ~Finished)) => ENABLED TotalNext
    /\ (pc = "parse_cflags" /\ ~CfFinished) => ENABLED TotalNext

(***************************************************************************)
(* C15: parse (both crates) and parse_cflags are total: on every input a   *)
(* call that has tokens left takes its next step, the index recorded for   *)
(* an in-place upgrade always points at the library's entry inside the     *)
(* output, and a step on a token of no recognised form adds no output      *)
(* entry and changes neither the region flag nor the seen set.             *)
(***************************************************************************)
C15_Total ==
    /\ [](UpgradeIndexInOutput /\ CallProceeds)
    /\ [][ /\ (pc = "second_pass" /\ pos' = pos + 1 /\ IsUnrecognised(flag))
               => /\ flags' = flags
                  /\ in_whole_archive_region' = in_whole_archive_region
                  /\ seen_libs' = seen_libs
                  /\ lib_indices' = lib_indices
           /\ (pc = "parse_cflags" /\ pos' = pos + 1 /\ ~IsCflagToken(token))
               => /\ cflags' = cflags
                  /\ cflags_seen' = cflags_seen ]_vars

\* pkgconf: f was created Static, upgraded in place through its index, and
\* unrecognised tokens were consumed inside the region, which is still open
\* at the end of the pass.
C15_Witness ==
    /\ Finished
    /\ parser = "pkgconf"
    /\ \E a, b \in LibMentions(N_f) : a < b /\ ~InRegionAt(a) /\ InRegionAt(b)
    /\ \E k \in 1..Len(pkg_config_output) :
          IsUnrecognised(pkg_config_output[k]) /\ InRegionAt(k)
    /\ in_whole_archive_region = TRUE
    /\ \E i \in EntriesOf(N_f) : flags[i].kind = "WholeArchive"

\* parse_cflags finished on an input with unknown tokens between the flags.
C15_WitnessCflags ==
    /\ CfFinished
    /\ Len(cflags_output) >= 3
    /\ ~IsCflagToken(cflags_output[2])
    /\ Len(cflags) >= 2
(***************************************************************************)
(* The threading flag: parse over the tokens that name pthread             *)
(***************************************************************************)
MaxPthread == 4

T_lc_libpthread_a ==
    <<"-","l",":","l","i","b","p","t","h","r","e","a","d",".","a">>

PthreadVocabulary == {T_pthread, T_l_pthread, T_lc_libpthread_a, T_whole, T_L_o}

PthreadInputs == UNION { [1..k -> PthreadVocabulary] : k \in 0..MaxPthread }

PthreadInit ==
    Setup({"pkgconf", "spdk_io_build"}, PthreadInputs,
          { {}, {S_pthread} }, { {}, {S_pthread} })

PthreadNext ==
    \/ PkgFirstPass
    \/ PkgSearchPath
    \/ PkgWl
    \/ PkgExplicitArchive
    \/ PkgLib
    \/ PkgPthread
    \/ PkgSkip
    \/ BldSearchPath
    \/ BldWl
    \/ BldExplicitArchive
    \/ BldLib
    \/ BldPthread
    \/ BldSkip

PthreadSpec == PthreadInit /\ [][PthreadNext]_vars

\* The kind each crate gives the entry of a -pthread token.
PthreadKind == IF parser = "pkgconf" THEN "Default" ELSE "Dynamic"

(***************************************************************************)
(* C16: in both parsers, the step on a -pthread token appends              *)
(* Library(pthread, Default / Dynamic) exactly when no earlier token of    *)
(* the pass named pthread (by -pthread, -lpthread or -l:libpthread.a), and *)
(* it marks pthread seen; once a -pthread token was consumed, a step on    *)
(* any later -pthread, -lpthread or -l:libpthread.a token adds no entry.   *)
(***************************************************************************)
C16_PthreadOnce ==
    [][ (pc = "second_pass" /\ pos' = pos + 1) =>
            LET earlier == \E k \in Mentions(S_pthread) : k <= pos
                after_flag == \E k \in 1..pos : pkg_config_output[k] = T_pthread
            IN /\ (flag = T_pthread /\ ~earlier) =>
                      /\ flags' = Append(flags, Library(S_pthread, PthreadKind))
                      /\ S_pthread \in seen_libs'
               /\ (flag = T_pthread /\ earlier) => flags' = flags
               /\ (pos + 1 \in Mentions(S_pthread) /\ after_flag) =>
                      /\ Len(flags') = Len(flags)
                      /\ S_pthread \in seen_libs' ]_vars

\* -pthread, then -lpthread, then -l:libpthread.a (the archive exists in
\* /o, which is a search directory): one entry for pthread, of the kind the
\* -pthread token gave it.
C16_Witness ==
    /\ pos >= 3
    /\ \E a, b, c \in 1..pos :
          /\ a < b /\ b < c
          /\ \A m \in Mentions(S_pthread) : a <= m
          /\ pkg_config_output[a] = T_pthread
          /\ pkg_config_output[b] = T_l_pthread
          /\ pkg_config_output[c] = T_lc_libpthread_a
    /\ \E k \in 1..Len(pkg_config_output) : pkg_config_output[k] = T_L_o
    /\ Cardinality(EntriesOf(S_pthread)) = 1
    /\ \A i \in EntriesOf(S_pthread) : flags[i].kind = PthreadKind

\* -lpthread came first: the later -pthread token added nothing.
C16_WitnessAfterLib ==
    /\ pos >= 2
    /\ pkg_config_output[1] = T_l_pthread
    /\ pkg_config_output[2] = T_pthread
    /\ Len(flags) = 1
(***************************************************************************)
(* Explicit-archive tokens: parse over the forms of -l:<rest>              *)
(***************************************************************************)
MaxArchive == 3

T_lc_f_a  == <<"-","l",":","f",".","a">>
T_lc_libf == <<"-","l",":","l","i","b","f">>

ArchiveVocabulary == {T_lc_libf_a, T_lc_f_a, T_lc_libf, T_l_f, T_L_o}

ArchiveInputs == UNION { [1..k -> ArchiveVocabulary] : k \in 0..MaxArchive }

ArchiveInit ==
    Setup({"pkgconf", "spdk_io_build"}, ArchiveInputs, { {} }, { {} })

ArchiveNext ==
    \/ PkgFirstPass
    \/ PkgSearchPath
    \/ PkgExplicitArchive
    \/ PkgLib
    \/ BldSearchPath
    \/ BldExplicitArchive
    \/ BldLib

ArchiveSpec == ArchiveInit /\ [][ArchiveNext]_vars

\* The name of a library token as the claim states it: for -l:<rest>, rest
\* without a leading lib and without a trailing .a, each removed when
\* present, independently of the other; for -l<name>, name.
StatedName(tok) ==
    IF starts_with(tok, S_lcolon)
    THEN LET rest == SubSeq(tok, Len(S_lcolon) + 1, Len(tok))
             no_lib == IF starts_with(rest, S_lib)
                       THEN SubSeq(rest, Len(S_lib) + 1, Len(rest))
                       ELSE rest
         IN IF ends_with(no_lib, S_dot_a)
            THEN SubSeq(no_lib, 1, Len(no_lib) - Len(S_dot_a))
            ELSE no_lib
    ELSE SubSeq(tok, Len(S_l) + 1, Len(tok))

(***************************************************************************)
(* C17 as stated: after every consumed prefix, in both parsers, the names  *)
(* of the Library entries are the names of the consumed -l and -l: tokens, *)
(* the name of -l:<rest> being rest without a leading lib and without a    *)
(* trailing .a, each removed independently; so -l:libf.a, -l:f.a and       *)
(* -l:libf all name f and merge with -lf into one entry.                   *)
(***************************************************************************)
C17_ExplicitArchiveName ==
    LibNames = { StatedName(pkg_config_output[k]) :
                   k \in { j \in 1..pos : IsLibToken(pkg_config_output[j]) } }
(***************************************************************************)
(* Rendering of cargo directives: pkgconf::to_cargo_directives and         *)
(* spdk_io_build::PkgConfigParser::emit_cargo_metadata                     *)
(***************************************************************************)
F_link_search ==
    <<"c","a","r","g","o",":","r","u","s","t","c","-","l","i","n","k","-","s",
      "e","a","r","c","h","=","n","a","t","i","v","e","=">>
F_link_lib ==
    <<"c","a","r","g","o",":","r","u","s","t","c","-","l","i","n","k","-","l",
      "i","b","=">>
F_static_no_bundle ==
    <<"c","a","r","g","o",":","r","u","s","t","c","-","l","i","n","k","-","l",
      "i","b","=","s","t","a","t","i","c",":","-","b","u","n","d","l","e",
      "=">>
F_static ==
    <<"c","a","r","g","o",":","r","u","s","t","c","-","l","i","n","k","-","l",
      "i","b","=","s","t","a","t","i","c","=">>
F_whole_no_bundle ==
    <<"c","a","r","g","o",":","r","u","s","t","c","-","l","i","n","k","-","l",
      "i","b","=","s","t","a","t","i","c",":","+","w","h","o","l","e","-","a",
      "r","c","h","i","v","e",",","-","b","u","n","d","l","e","=">>
F_whole ==
    <<"c","a","r","g","o",":","r","u","s","t","c","-","l","i","n","k","-","l",
      "i","b","=","s","t","a","t","i","c",":","+","w","h","o","l","e","-","a",
      "r","c","h","i","v","e","=">>
F_link_arg ==
    <<"c","a","r","g","o",":","r","u","s","t","c","-","l","i","n","k","-","a",
      "r","g","=">>

\* Mutant: the -bundle modifier is added when no_bundle is false.
to_cargo_directive_BundleSwapped(f, nb) ==
    IF f.tag = "SearchPath" THEN F_link_search \o f.path
    ELSE IF f.tag = "Library"
    THEN CASE f.kind = "Default" -> F_link_lib \o f.name
           [] f.kind = "Static" ->
                  IF nb THEN F_static \o f.name
                  ELSE F_static_no_bundle \o f.name
           [] f.kind = "WholeArchive" ->
                  IF nb THEN F_whole \o f.name
                  ELSE F_whole_no_bundle \o f.name
    ELSE F_link_arg \o f.arg

\* LinkerFlag::to_cargo_directive
to_cargo_directive(f, nb) ==
    IF f.tag = "SearchPath" THEN F_link_search \o f.path
    ELSE IF f.tag = "Library"
    THEN CASE f.kind = "Default" -> F_link_lib \o f.name
           [] f.kind = "Static" ->
                  IF nb THEN F_static_no_bundle \o f.name
                  ELSE F_static \o f.name
           [] f.kind = "WholeArchive" ->
                  IF nb THEN F_whole_no_bundle \o f.name
                  ELSE F_whole \o f.name
    ELSE F_link_arg \o f.arg

\* to_cargo_directives
to_cargo_directives(fl, nb) ==
    [i \in 1..Len(fl) |-> to_cargo_directive(fl[i], nb)]

\* The line emit_cargo_metadata of spdk_io_build prints for one flag.
BldDirective(f, nb) ==
    IF f.tag = "SearchPath" THEN F_link_search \o f.path
    ELSE IF f.tag = "Library"
    THEN CASE f.kind = "Dynamic" -> F_link_lib \o f.name
           [] f.kind = "Static" ->
                  IF nb THEN F_static_no_bundle \o f.name
                  ELSE F_static \o f.name
           [] f.kind = "WholeArchive" ->
                  IF nb THEN F_whole_no_bundle \o f.name
                  ELSE F_whole \o f.name
    ELSE F_link_arg \o f.arg

\* The lines emit_cargo_metadata of spdk_io_build prints.
BldEmitCargoMetadata(fl, nb) == [i \in 1..Len(fl) |-> BldDirective(fl[i], nb)]

MaxFlags == 3

\* The flags the renderers are called on.
EmitFlags(p) ==
    { SearchPath(D_o),
      Library(N_f, IF p = "pkgconf" THEN "Default" ELSE "Dynamic"),
      Library(N_f, "Static"),
      Library(N_g, "WholeArchive"),
      LinkerArg(T_as_needed) }

EmitInit ==
    /\ parser \in {"pkgconf", "spdk_io_build"}
    /\ system_roots \in SystemRootChoices
    /\ force_whole_archive = {}
    /\ system_libs = {}
    /\ files \in FileSystems
    /\ pkg_config_output = <<>>
    /\ pc = "call"
    /\ pos = 0
    /\ lib_dirs = <<>>
    /\ flags \in UNION { [1..k -> EmitFlags(parser)] : k \in 0..MaxFlags }
    /\ seen_libs = {}
    /\ lib_indices = <<>>
    /\ in_whole_archive_region = FALSE
    /\ NoCflags
    /\ NoProbe
    /\ no_bundle \in BOOLEAN
    /\ directives = <<>>
    /\ probe_calls = <<>>
    /\ NoOuter

\* pkgconf: the call to_cargo_directives(flags, no_bundle) returns.
ToCargoDirectives ==
    /\ pc = "call"
    /\ parser = "pkgconf"
    /\ directives' = to_cargo_directives(flags, no_bundle)
    /\ pc' = "returned"
    /\ UNCHANGED <<config, pos, lib_dirs, flags, seen_libs, lib_indices,
                   in_whole_archive_region, cflags_output, cflags, cflags_seen,
                   probe_name, probe_result, no_bundle, probe_calls, outer, runtime>>

\* spdk_io_build: the call emit_cargo_metadata(flags) has printed its lines.
EmitCargoMetadata ==
    /\ pc = "call"
    /\ parser = "spdk_io_build"
    /\ directives' = BldEmitCargoMetadata(flags, no_bundle)
    /\ pc' = "returned"
    /\ UNCHANGED <<config, pos, lib_dirs, flags, seen_libs, lib_indices,
                   in_whole_archive_region, cflags_output, cflags, cflags_seen,
                   probe_name, probe_result, no_bundle, probe_calls, outer, runtime>>

EmitNext ==
    \/ ToCargoDirectives
    \/ EmitCargoMetadata

EmitSpec == EmitInit /\ [][EmitNext]_vars
\* The line the claim states for one flag, put together from its parts: the
\* directive, the modifiers of a static library, and the text.
StatedDirective(e, nb) ==
    LET cargo == <<"c","a","r","g","o",":","r","u","s","t","c","-","l","i",
      "n","k","-">>
        bundle == IF nb THEN <<"-","b","u","n","d","l","e">> ELSE <<>>
    IN IF e.tag = "SearchPath"
       THEN cargo \o <<"s","e","a","r","c","h","=","n","a","t","i","v","e","="
         >> \o e.path
       ELSE IF e.tag = "LinkerArg"
       THEN cargo \o <<"a","r","g","=">> \o e.arg
       ELSE IF e.kind = "Static"
       THEN cargo \o <<"l","i","b","=","s","t","a","t","i","c">>
                \o (IF nb THEN <<":">> \o bundle ELSE <<>>) \o <<"="
                  >> \o e.name
       ELSE IF e.kind = "WholeArchive"
       THEN cargo \o <<"l","i","b","=","s","t","a","t","i","c",":","+","w",
         "h","o","l","e","-","a","r","c","h","i","v","e">>
                \o (IF nb THEN <<",">> \o bundle ELSE <<>>) \o <<"="
                  >> \o e.name
       ELSE cargo \o <<"l","i","b","=">> \o e.name

\* The line the running crate renders for one flag.
Rendered(e, nb) ==
    IF parser = "pkgconf" THEN to_cargo_directive(e, nb)
    ELSE BldDirective(e, nb)

(***************************************************************************)
(* C20: to_cargo_directives (and emit_cargo_metadata of spdk_io_build)     *)
(* renders one line per flag, in input order, by the templates             *)
(*   SearchPath(p)            cargo:rustc-link-search=native=p             *)
(*   Library(n, Default)      cargo:rustc-link-lib=n                       *)
(*   Library(n, Static)       cargo:rustc-link-lib=static[:-bundle]=n      *)
(*   Library(n, WholeArchive)                                              *)
(*             cargo:rustc-link-lib=static:+whole-archive[,-bundle]=n      *)
(*   LinkerArg(a)             cargo:rustc-link-arg=a                       *)
(* with -bundle present exactly when no_bundle is true; the toggle changes *)
(* the line of Static and WholeArchive entries and of no other entry.      *)
(***************************************************************************)
C20_DirectiveTemplates ==
    pc = "returned" =>
        /\ directives =
               [i \in 1..Len(flags) |-> StatedDirective(flags[i], no_bundle)]
        /\ \A i \in 1..Len(flags) :
               (Rendered(flags[i], TRUE) # Rendered(flags[i], FALSE))
                   <=> /\ flags[i].tag = "Library"
                       /\ flags[i].kind \in {"Static", "WholeArchive"}

\* pkgconf, no_bundle true: a search path, then f Static, then g
\* WholeArchive, rendered in that order.
C20_Witness ==
    /\ pc = "returned"
    /\ parser = "pkgconf"
    /\ no_bundle = TRUE
    /\ flags = <<SearchPath(D_o), Library(N_f, "Static"),
                 Library(N_g, "WholeArchive")>>
    /\ directives =
         << <<"c","a","r","g","o",":","r","u","s","t","c","-","l","i","n","k",
           "-","s","e","a","r","c","h","=","n","a","t","i","v","e","=","/","o"
           >>,
            <<"c","a","r","g","o",":","r","u","s","t","c","-","l","i","n","k",
              "-","l","i","b","=","s","t","a","t","i","c",":","-","b","u","n",
              "d","l","e","=","f">>,
            <<"c","a","r","g","o",":","r","u","s","t","c","-","l","i","n","k",
              "-","l","i","b","=","s","t","a","t","i","c",":","+","w","h","o",
              "l","e","-","a","r","c","h","i","v","e",",","-","b","u","n","d",
              "l","e","=","g">> >>

\* spdk_io_build, no_bundle false: f Dynamic, f Static and a linker
\* argument.
C20_WitnessBuild ==
    /\ pc = "returned"
    /\ parser = "spdk_io_build"
    /\ no_bundle = FALSE
    /\ flags = <<Library(N_f, "Dynamic"), Library(N_f, "Static"),
                 LinkerArg(T_as_needed)>>
    /\ directives =
         << <<"c","a","r","g","o",":","r","u","s","t","c","-","l","i","n","k",
           "-","l","i","b","=","f">>,
            <<"c","a","r","g","o",":","r","u","s","t","c","-","l","i","n","k",
              "-","l","i","b","=","s","t","a","t","i","c","=","f">>,
            <<"c","a","r","g","o",":","r","u","s","t","c","-","l","i","n","k",
              "-","a","r","g","=","-","W","l",",","-","-","a","s","-","n","e",
              "e","d","e","d">> >>
(***************************************************************************)
(* The static-availability probe within one pkgconf parse pass             *)
(***************************************************************************)
MaxOnce == 4

OnceVocabulary ==
    {T_l_f, T_lc_libf_a, T_l_g, T_pthread, T_l_pthread, T_whole}

OnceInputs == UNION { [1..k -> OnceVocabulary] : k \in 0..MaxOnce }

OnceInit == Setup({"pkgconf"}, OnceInputs, ForceChoices, { {} })

OnceNext ==
    \/ PkgFirstPass
    \/ PkgWl
    \/ PkgExplicitArchive
    \/ PkgLib
    \/ PkgPthread
    \/ PkgSkip

OnceSpec == OnceInit /\ [][OnceNext]_vars

\* Token k is a -l / -l: token and no earlier token mentions its name.
FirstLibMention(k) ==
    /\ IsLibToken(pkg_config_output[k])
    /\ \A j \in Mentions(LibTokenName(pkg_config_output[k])) : j >= k

\* The names first mentioned by a -l / -l: token among the first n tokens,
\* in token order.
RECURSIVE FirstLibMentions(_)
FirstLibMentions(n) ==
    IF n = 0 THEN <<>>
    ELSE FirstLibMentions(n - 1) \o
         (IF FirstLibMention(n) THEN <<LibTokenName(pkg_config_output[n])>>
          ELSE <<>>)

(***************************************************************************)
(* C25: in one pkgconf parse pass is_static_available is called at most    *)
(* once per library name: once at the first -l / -l: mention of a name,    *)
(* never at a later mention of a seen name, and never for a name that      *)
(* -pthread introduced.                                                    *)
(***************************************************************************)
C25_ProbeOncePerName ==
    /\ probe_calls = FirstLibMentions(pos)
    /\ \A i, j \in 1..Len(probe_calls) :
          probe_calls[i] = probe_calls[j] => i = j

\* -pthread came before -lpthread and f was mentioned in both forms: the
\* pass made one call, for f.
C25_Witness ==
    /\ Finished
    /\ Len(pkg_config_output) = 4
    /\ \E a, b \in Mentions(S_pthread) :
          /\ a < b
          /\ IsPthreadToken(pkg_config_output[a])
          /\ IsLibToken(pkg_config_output[b])
    /\ \E a, b \in LibMentions(N_f) :
          a # b /\ pkg_config_output[a] # pkg_config_output[b]
    /\ probe_calls = <<N_f>>
    /\ Len(flags) = 2
(***************************************************************************)
(* spdk_io_build parse: system libraries and whole-archive regions         *)
(***************************************************************************)
MaxBld == 4

BldVocabulary ==
    {T_l_f, T_lc_libf_a, T_l_pthread, T_pthread, T_whole, T_no_whole}

BldInputs == UNION { [1..k -> BldVocabulary] : k \in 0..MaxBld }

BldSystemLibChoices == { {}, {N_f}, {S_pthread} }

\* The archives exist on disk or nothing does.
BldFileSystems == FileSystems \cup { {} }

BldInit ==
    /\ parser = "spdk_io_build"
    /\ system_roots \in SystemRootChoices
    /\ force_whole_archive = {}
    /\ system_libs \in BldSystemLibChoices
    /\ files \in BldFileSystems
    /\ pkg_config_output \in BldInputs
    /\ pc = "second_pass"
    /\ ParseEntry
    /\ NoCflags
    /\ NoProbe
    /\ NoDirectives
    /\ probe_calls = <<>>
    /\ NoOuter

BldNext ==
    \/ BldWl
    \/ BldExplicitArchive
    \/ BldLib
    \/ BldPthread
    \/ BldSkip

BldSpec == BldInit /\ [][BldNext]_vars

\* The tokens consumed so far that mention the name, and those among them
\* that are -l / -l: tokens.
MentionsSoFar(name) == { k \in Mentions(name) : k <= pos }
LibMentionsSoFar(name) == { k \in LibMentions(name) : k <= pos }

(***************************************************************************)
(* C22: in spdk_io_build parse a library whose name is in system_libs is   *)
(* emitted with kind Dynamic and keeps it to the end of the pass, whether  *)
(* its first mention is inside or outside a whole-archive region and       *)
(* however often it is mentioned again inside one.                         *)
(***************************************************************************)
C22_SystemLibDynamic ==
    parser = "spdk_io_build" =>
        \A n \in system_libs :
            /\ MentionsSoFar(n) # {} => Cardinality(EntriesOf(n)) = 1
            /\ \A i \in EntriesOf(n) : flags[i].kind = "Dynamic"

\* A system library first mentioned outside the region and mentioned twice
\* more inside it ended Dynamic.
C22_Witness ==
    /\ Finished
    /\ parser = "spdk_io_build"
    /\ N_f \in system_libs
    /\ \E a, b, c \in LibMentions(N_f) :
          /\ a < b /\ b < c
          /\ ~InRegionAt(a) /\ InRegionAt(b) /\ InRegionAt(c)
    /\ \E i \in EntriesOf(N_f) : flags[i].kind = "Dynamic"

\* A system library first mentioned inside the region ended Dynamic.
C22_WitnessInside ==
    /\ Finished
    /\ parser = "spdk_io_build"
    /\ S_pthread \in system_libs
    /\ \E a \in LibMentions(S_pthread) :
          InRegionAt(a) /\ \A b \in Mentions(S_pthread) : a <= b
    /\ \E i \in EntriesOf(S_pthread) : flags[i].kind = "Dynamic"

\* The kind the claim states for a name outside system_libs.
StatedKind(n) ==
    IF \E k \in LibMentionsSoFar(n) : InRegionAt(k) THEN "WholeArchive"
    ELSE "Static"

(***************************************************************************)
(* C23 as stated: in spdk_io_build parse every library name outside        *)
(* system_libs that a -l or -l: token mentions has kind WholeArchive if    *)
(* one of its mentions lies in a whole-archive region and Static           *)
(* otherwise.                                                              *)
(***************************************************************************)
C23_KindByRegion ==
    parser = "spdk_io_build" =>
        \A n \in LibNames \ system_libs :
            LibMentionsSoFar(n) # {} =>
                \A i \in EntriesOf(n) : flags[i].kind = StatedKind(n)

(***************************************************************************)
(* C23 amended: in spdk_io_build parse every library name outside          *)
(* system_libs whose first mention is a -l or -l: token has kind           *)
(* WholeArchive if one of its -l / -l: mentions lies in a whole-archive    *)
(* region and Static otherwise, whatever the filesystem holds; a name that *)
(* -pthread introduced stays Dynamic.                                      *)
(***************************************************************************)
C23_KindByRegionOfLibNames ==
    parser = "spdk_io_build" =>
        \A n \in LibNames \ system_libs :
            /\ Cardinality(EntriesOf(n)) = 1
            /\ \A i \in EntriesOf(n) :
                  flags[i].kind =
                      IF \E k \in MentionsSoFar(n) :
                            /\ IsPthreadToken(pkg_config_output[k])
                            /\ \A j \in MentionsSoFar(n) : k <= j
                      THEN "Dynamic"
                      ELSE StatedKind(n)

\* f, outside system_libs, was mentioned before the region and again by
\* -l:libf.a inside it, and pthread before the region only.
C23_Witness ==
    /\ Finished
    /\ parser = "spdk_io_build"
    /\ system_libs = {}
    /\ pkg_config_output = <<T_l_pthread, T_l_f, T_whole, T_lc_libf_a>>
    /\ files = {}
    /\ flags = <<Library(S_pthread, "Static"), Library(N_f, "WholeArchive")>>
(***************************************************************************)
(* probe (pkgconf) and probe_and_emit (spdk_io_build)                      *)
(***************************************************************************)
Ok(v) == [tag |-> "Ok", val |-> v]
Err(e) == [tag |-> "Err", err |-> e]

\* run_pkg_config_raw on the outcome of the pkg-config command: whether the
\* process could be started, its exit status, its tokens on stdout.
run_pkg_config_raw(o) ==
    IF ~o.spawned THEN Err("Failed to run pkg-config: e")
    ELSE IF ~o.success THEN Err("pkg-config failed: stderr")
    ELSE Ok(o.stdout)

\* Mutant: an error of the query is swallowed, the text counts as empty.
QuestionMark_Swallowed(r, next) ==
    IF r.tag = "Err" THEN [returns |-> FALSE, pc |-> next, val |-> <<>>]
    ELSE [returns |-> FALSE, pc |-> next, val |-> r.val]

\* The ? operator on the result r of a query: Err returns from the caller,
\* Ok yields the text and the caller goes on at next.
QuestionMark(r, next) ==
    IF r.tag = "Err" THEN [returns |-> TRUE, pc |-> "returned", val |-> <<>>]
    ELSE [returns |-> FALSE, pc |-> next, val |-> r.val]

MaxQuery == 2

QueryLibsTexts == UNION { [1..k -> {T_L_o, T_l_f, T_whole}] : k \in 0..MaxQuery }
QueryCflagsTexts == UNION { [1..k -> {C_I_a, C_D_X, C_std}] : k \in 0..MaxQuery }

\* What running pkg-config can come to.
Outcomes(texts) ==
    { [spawned |-> FALSE, success |-> FALSE, stdout |-> <<>>],
      [spawned |-> TRUE, success |-> FALSE, stdout |-> <<>>] }
    \cup { [spawned |-> TRUE, success |-> TRUE, stdout |-> t] : t \in texts }

\* A configured parser at the entry of probe / probe_and_emit.
QueryInit ==
    /\ parser \in {"pkgconf", "spdk_io_build"}
    /\ system_roots \in SystemRootChoices
    /\ force_whole_archive = {}
    /\ system_libs = {}
    /\ files \in FileSystems
    /\ pkg_config_output = <<>>
    /\ pc = "run_pkg_config"
    /\ ParseEntry
    /\ NoCflags
    /\ NoProbe
    /\ no_bundle \in (IF parser = "spdk_io_build" THEN BOOLEAN ELSE {FALSE})
    /\ directives = <<>>
    /\ probe_calls = <<>>
    /\ NoOuter

\* let libs_output = Self::run_pkg_config(..)?  (let output = .. in
\* probe_and_emit)
RunPkgConfig ==
    /\ pc = "run_pkg_config"
    /\ \E o \in Outcomes(QueryLibsTexts) :
          LET q == QuestionMark(run_pkg_config_raw(o),
                                IF parser = "pkgconf"
                                THEN "run_pkg_config_cflags" ELSE "second_pass")
          IN /\ queries' = Append(queries, [args |-> "--static --libs",
                                            outcome |-> o])
             /\ pkg_config_output' = q.val
             /\ pc' = q.pc
             /\ ret' = IF q.returns THEN run_pkg_config_raw(o) ELSE ret
    /\ UNCHANGED <<parser, system_roots, force_whole_archive, system_libs,
                   files, pos, lib_dirs, flags, seen_libs, lib_indices,
                   in_whole_archive_region, others, probe_calls, returned, runtime>>

\* let cflags_output = Self::run_pkg_config_cflags(..)?, then parse is
\* entered.
RunPkgConfigCflags ==
    /\ pc = "run_pkg_config_cflags"
    /\ \E o \in Outcomes(QueryCflagsTexts) :
          LET q == QuestionMark(run_pkg_config_raw(o), "first_pass")
          IN /\ queries' = Append(queries, [args |-> "--cflags", outcome |-> o])
             /\ cflags_output' = q.val
             /\ pc' = q.pc
             /\ ret' = IF q.returns THEN run_pkg_config_raw(o) ELSE ret
    /\ UNCHANGED <<config, pos, lib_dirs, flags, seen_libs, lib_indices,
                   in_whole_archive_region, cflags, cflags_seen, probe_name,
                   probe_result, no_bundle, directives, probe_calls, returned, runtime>>

\* probe: parse has returned libs, parse_cflags is entered.
ProbeParseCflags ==
    /\ parser = "pkgconf"
    /\ Finished
    /\ ret = [tag |-> "none"]
    /\ pc' = "parse_cflags"
    /\ pos' = 0
    /\ cflags' = InitialCflagsState.flags
    /\ cflags_seen' = InitialCflagsState.seen
    /\ UNCHANGED <<config, lib_dirs, flags, seen_libs, lib_indices,
                   in_whole_archive_region, cflags_output, probe_name,
                   probe_result, no_bundle, directives, probe_calls, outer, runtime>>

\* probe: parse_cflags has returned, Ok(PkgConfig { libs, cflags }).
ProbeReturn ==
    /\ CfFinished
    /\ ret = [tag |-> "none"]
    /\ ret' = Ok([libs |-> flags, cflags |-> cflags])
    /\ pc' = "returned"
    /\ UNCHANGED <<config, pos, lib_dirs, flags, seen_libs, lib_indices,
                   in_whole_archive_region, others, probe_calls, queries,
                   returned, runtime>>

\* probe_and_emit: parse has returned, emit_cargo_metadata prints, Ok(()).
ProbeAndEmitReturn ==
    /\ parser = "spdk_io_build"
    /\ Finished
    /\ ret = [tag |-> "none"]
    /\ directives' = BldEmitCargoMetadata(flags, no_bundle)
    /\ ret' = Ok(<<>>)
    /\ pc' = "returned"
    /\ UNCHANGED <<config, pos, lib_dirs, flags, seen_libs, lib_indices,
                   in_whole_archive_region, cflags_output, cflags, cflags_seen,
                   probe_name, probe_result, no_bundle, probe_calls, queries,
                   returned, runtime>>

QueryNext ==
    \/ RunPkgConfig
    \/ RunPkgConfigCflags
    \/ PkgFirstPass
    \/ PkgSearchPath
    \/ PkgWl
    \/ PkgLib
    \/ ProbeParseCflags
    \/ CfIncludePath
    \/ CfDefine
    \/ CfSkip
    \/ ProbeReturn
    \/ BldSearchPath
    \/ BldWl
    \/ BldLib
    \/ ProbeAndEmitReturn

QuerySpec == QueryInit /\ [][QueryNext]_vars
\* The discovery query failed: pkg-config could not be started or exited
\* with a failure status.
QueryFailed(q) == ~q.outcome.spawned \/ ~q.outcome.success

\* The diagnostic of a failed query.
Diagnostic(q) ==
    IF ~q.outcome.spawned THEN "Failed to run pkg-config: e"
    ELSE "pkg-config failed: stderr"

\* No token of either text has been classified.
NothingClassified ==
    /\ pos = 0
    /\ lib_dirs = <<>>
    /\ flags = <<>>
    /\ seen_libs = {}
    /\ cflags = <<>>
    /\ cflags_seen = {}
    /\ probe_calls = <<>>
    /\ directives = <<>>

\* The number of queries the call makes.
QueriesOf(p) == IF p = "pkgconf" THEN 2 ELSE 1

(***************************************************************************)
(* C21: probe returns Err with the diagnostic whenever a discovery query   *)
(* fails, and then nothing of either text is classified and no PkgConfig   *)
(* is returned; it returns Ok only after both queries succeeded, with both *)
(* texts classified in full; a failure of the first query keeps the        *)
(* second from running. (probe_and_emit alike, with its one query.)        *)
(***************************************************************************)
C21_ProbeAllOrNothing ==
    /\ \A i \in 1..Len(queries) :
          QueryFailed(queries[i]) =>
              /\ i = Len(queries)
              /\ pc = "returned"
              /\ ret = Err(Diagnostic(queries[i]))
              /\ NothingClassified
    /\ pc \in {"first_pass", "second_pass", "parse_cflags"} =>
          /\ Len(queries) = QueriesOf(parser)
          /\ \A i \in 1..Len(queries) : ~QueryFailed(queries[i])
          /\ ret = [tag |-> "none"]
    /\ pc = "run_pkg_config" => queries = <<>> /\ NothingClassified
    /\ pc = "run_pkg_config_cflags" => Len(queries) = 1 /\ NothingClassified
    /\ (pc = "returned" /\ ret.tag = "Ok") =>
          /\ Len(queries) = QueriesOf(parser)
          /\ \A i \in 1..Len(queries) : ~QueryFailed(queries[i])
          /\ pkg_config_output = queries[1].outcome.stdout
          /\ parser = "pkgconf" =>
                /\ cflags_output = queries[2].outcome.stdout
                /\ ret.val.libs = PkgParse(pkg_config_output)
                /\ ret.val.cflags = ParseCflags(cflags_output)
          /\ parser = "spdk_io_build" =>
                /\ pos = Len(pkg_config_output)
                /\ Len(directives) = Len(flags)
    /\ pc = "returned" => ret.tag \in {"Ok", "Err"}

\* probe returned Ok after classifying two tokens of each text.
C21_Witness ==
    /\ pc = "returned"
    /\ parser = "pkgconf"
    /\ ret.tag = "Ok"
    /\ Len(queries) = 2
    /\ Len(ret.val.libs) = 2
    /\ Len(ret.val.cflags) = 2

\* The second query failed after the first had returned two tokens: probe
\* returned Err and classified nothing.
C21_WitnessSecondFails ==
    /\ pc = "returned"
    /\ parser = "pkgconf"
    /\ Len(queries) = 2
    /\ Len(queries[1].outcome.stdout) = 2
    /\ QueryFailed(queries[2])
    /\ ret = Err("pkg-config failed: stderr")
    /\ flags = <<>>

\* The first query could not start pkg-config: one query, Err.
C21_WitnessFirstFails ==
    /\ pc = "returned"
    /\ parser = "pkgconf"
    /\ Len(queries) = 1
    /\ ret = Err("Failed to run pkg-config: e")
(***************************************************************************)
(* Several classification calls on one parser                              *)
(***************************************************************************)
MaxCalls == 2

\* Inputs that end inside an open region, outside one, and the empty text.
RepeatInputs ==
    { <<T_L_o, T_l_f, T_whole>>, <<T_whole, T_l_f>>, <<T_l_f, T_whole, T_l_f,
      T_no_whole>>, <<>> }

RepeatCflagsInputs == { <<C_I_a, C_D_X>>, <<C_std>> }

RepeatFileSystems == FileSystems \cup { {} }

\* A configured parser on which no call is running.
RepeatInit ==
    /\ parser \in {"pkgconf", "spdk_io_build"}
    /\ system_roots \in SystemRootChoices
    /\ force_whole_archive \in (IF parser = "pkgconf" THEN { {N_f} } ELSE { {} })
    /\ system_libs = {}
    /\ files \in RepeatFileSystems
    /\ pkg_config_output = <<>>
    /\ pc = "idle"
    /\ ParseEntry
    /\ NoCflags
    /\ NoProbe
    /\ no_bundle \in (IF parser = "spdk_io_build" THEN BOOLEAN ELSE {FALSE})
    /\ directives = <<>>
    /\ probe_calls = <<>>
    /\ NoOuter

\* Mutant: the region flag is kept in the parser and outlives the call.
EnterParse_RegionKept(st) ==
    [InitialParseState EXCEPT
        !.in_whole_archive_region = st.in_whole_archive_region]

\* The locals a call of parse declares at its entry, where st is what the
\* call before left behind.
EnterParse(st) == InitialParseState

\* parse is called.
ParseCall ==
    /\ pc = "idle"
    /\ Len(returned) < MaxCalls
    /\ pkg_config_output' \in RepeatInputs
    /\ flags' = EnterParse(State).flags
    /\ seen_libs' = EnterParse(State).seen_libs
    /\ lib_indices' = EnterParse(State).lib_indices
    /\ in_whole_archive_region' = EnterParse(State).in_whole_archive_region
    /\ pos' = 0
    /\ lib_dirs' = <<>>
    /\ probe_calls' = <<>>
    /\ pc' = (IF parser = "pkgconf" THEN "first_pass" ELSE "second_pass")
    /\ UNCHANGED <<parser, system_roots, force_whole_archive, system_libs,
                   files, others, outer, runtime>>

\* parse returns flags.
ParseReturn ==
    /\ Finished
    /\ returned' = Append(returned, [op |-> "parse",
                                     input |-> pkg_config_output,
                                     files |-> files,
                                     output |-> flags])
    /\ pc' = "idle"
    /\ UNCHANGED <<config, pos, lib_dirs, flags, seen_libs, lib_indices,
                   in_whole_archive_region, others, probe_calls, queries, ret, runtime>>

\* parse_cflags is called.
ParseCflagsCall ==
    /\ pc = "idle"
    /\ parser = "pkgconf"
    /\ Len(returned) < MaxCalls
    /\ cflags_output' \in RepeatCflagsInputs
    /\ cflags' = InitialCflagsState.flags
    /\ cflags_seen' = InitialCflagsState.seen
    /\ pos' = 0
    /\ pc' = "parse_cflags"
    /\ UNCHANGED <<config, lib_dirs, flags, seen_libs, lib_indices,
                   in_whole_archive_region, probe_name, probe_result,
                   no_bundle, directives, probe_calls, outer, runtime>>

\* parse_cflags returns flags.
ParseCflagsReturn ==
    /\ CfFinished
    /\ returned' = Append(returned, [op |-> "parse_cflags",
                                     input |-> cflags_output,
                                     files |-> files,
                                     output |-> cflags])
    /\ pc' = "idle"
    /\ UNCHANGED <<config, pos, lib_dirs, flags, seen_libs, lib_indices,
                   in_whole_archive_region, others, probe_calls, queries, ret, runtime>>

\* Between two calls the archives appear on disk or disappear.
FilesChange ==
    /\ pc = "idle"
    /\ files' \in RepeatFileSystems \ {files}
    /\ UNCHANGED <<parser, system_roots, force_whole_archive, system_libs,
                   pkg_config_output, pc, pos, lib_dirs, flags, seen_libs,
                   lib_indices, in_whole_archive_region, others, probe_calls,
                   outer, runtime>>

RepeatNext ==
    \/ ParseCall
    \/ PkgFirstPass
    \/ PkgSearchPath
    \/ PkgWl
    \/ PkgLib
    \/ BldSearchPath
    \/ BldWl
    \/ BldLib
    \/ ParseReturn
    \/ ParseCflagsCall
    \/ CfIncludePath
    \/ CfDefine
    \/ CfSkip
    \/ ParseCflagsReturn
    \/ FilesChange

RepeatSpec == RepeatInit /\ [][RepeatNext]_vars

\* A call of parse is at its entry.
AtParseEntry == pc \in {"first_pass", "second_pass"} /\ pos = 0

(***************************************************************************)
(* C24: no state of one classification call reaches another. parse and     *)
(* parse_cflags leave the parser configuration unchanged; a call starts    *)
(* with the region flag false and nothing seen, also after a call whose    *)
(* input ended inside an open region; and two parse calls on the same      *)
(* input with the same filesystem return equal outputs.                    *)
(***************************************************************************)
C24_CallsIndependent ==
    /\ [](/\ AtParseEntry =>
               /\ in_whole_archive_region = FALSE
               /\ seen_libs = {}
               /\ lib_indices = <<>>
               /\ flags = <<>>
          /\ (pc = "parse_cflags" /\ pos = 0) =>
               cflags = <<>> /\ cflags_seen = {}
          /\ \A i, j \in 1..Len(returned) :
               (/\ returned[i].op = returned[j].op
                /\ returned[i].input = returned[j].input
                /\ returned[i].files = returned[j].files)
               => returned[i].output = returned[j].output)
    /\ [][UNCHANGED <<parser, system_roots, force_whole_archive, system_libs,
                      no_bundle>>]_vars

\* The second parse call is at its entry after a first call on an input
\* that ended inside an open region, where f was upgraded.
C24_Witness ==
    /\ AtParseEntry
    /\ Len(returned) = 1
    /\ returned[1].input = <<T_L_o, T_l_f, T_whole>>
    /\ pkg_config_output = returned[1].input
    /\ returned[1].output # <<>>

\* Two parse calls on the same input with the same files have returned.
C24_WitnessTwice ==
    /\ pc = "idle"
    /\ Len(returned) = 2
    /\ returned[1].op = "parse"
    /\ returned[1].input = <<T_l_f, T_whole, T_l_f, T_no_whole>>
    /\ returned[2] = returned[1]
    /\ Len(returned[1].output) = 1

\* The archives appeared between two pkgconf calls on the same input: the
\* outputs differ.
C24_WitnessFilesChanged ==
    /\ pc = "idle"
    /\ Len(returned) = 2
    /\ returned[1].op = "parse"
    /\ returned[2].op = "parse"
    /\ returned[1].input = returned[2].input
    /\ returned[1].output # returned[2].output
(***************************************************************************)
(* env.rs: SpdkEnvBuilder::build, Drop for SpdkEnv, is_initialized         *)
(* Each OS thread runs its calls one after the other; a step of a call     *)
(* reaches up to its next access to ENV_INITIALIZED or to the library.     *)
(***************************************************************************)
MaxBuilds == 3

\* The variables of the classifiers, which env.rs does not touch.
classifiers ==
    <<config, pc, pos, lib_dirs, flags, seen_libs, lib_indices,
      in_whole_archive_region, others, probe_calls, outer>>

\* No classifier is in use.
NoParser ==
    /\ parser = "pkgconf"
    /\ system_roots = <<>>
    /\ force_whole_archive = {}
    /\ system_libs = {}
    /\ files = {}
    /\ pkg_config_output = <<>>
    /\ pc = "idle"
    /\ ParseEntry
    /\ NoCflags
    /\ NoProbe
    /\ NoDirectives
    /\ probe_calls = <<>>
    /\ NoQueries

EnvInit == NoParser /\ NoRuntime

\* The SpdkEnv values that exist: owned by a thread, a value being dropped
\* included.
EnvAlive ==
    Cardinality({ <<t, k>> \in OsThreads \X (1..MaxBuilds) :
                    k <= env_thread[t].held })

\* Mutant: build does not look at the flag it swapped out.
AlreadyInitialized_Unchecked(old) == FALSE

\* if ENV_INITIALIZED.swap(true, SeqCst) { return Err(AlreadyInitialized) }
AlreadyInitialized(old) == old

\* Mutant: the return code of spdk_env_init is not looked at.
InitFailed_Ignored(rc) == FALSE

\* if rc != 0
InitFailed(rc) == rc # 0

\* The return codes spdk_env_init can come back with: DPDK can be started
\* once per process, a call after that fails.
spdk_env_init(lib) == IF lib.eal = "fresh" THEN {0, -1} ELSE {-1}

\* The call of thread t returns.
Returns(t, op, result, value) ==
    [env_thread[t] EXCEPT !.pc = "idle",
                          !.last = [op |-> op, result |-> result,
                                    value |-> value]]

\* A call of build by thread t swaps the flag.
BuildStarts(t) ==
    /\ env_thread[t].pc = "idle"
    /\ env_calls.builds < MaxBuilds
    /\ ENV_INITIALIZED' = TRUE
    /\ env_calls' = [env_calls EXCEPT !.builds = @ + 1]

\* What build notes of the moment it started.
Started(t) ==
    [env_thread[t] EXCEPT !.after_drop = env_calls.dropped,
                          !.saw_env = EnvAlive > 0]

\* build: the flag was set, Err(AlreadyInitialized).
BuildAlreadyInitialized(t) ==
    /\ BuildStarts(t)
    /\ AlreadyInitialized(ENV_INITIALIZED)
    /\ env_thread' =
          [env_thread EXCEPT ![t] =
              [Started(t) EXCEPT !.last = [op |-> "build",
                                           result |-> "AlreadyInitialized",
                                           value |-> FALSE]]]
    /\ UNCHANGED <<spdk_env, classifiers, thread_rs>>

\* build: the flag was clear, the name (or core mask) holds a NUL byte and
\* CString::new(..)? returns the error.
BuildNulError(t) ==
    /\ BuildStarts(t)
    /\ ~AlreadyInitialized(ENV_INITIALIZED)
    /\ env_thread' =
          [env_thread EXCEPT ![t] =
              [Started(t) EXCEPT !.last = [op |-> "build",
                                           result |-> "NulError",
                                           value |-> FALSE]]]
    /\ UNCHANGED <<spdk_env, classifiers, thread_rs>>

\* build: the flag was clear, the strings convert, spdk_env_init is entered.
BuildEntersInit(t) ==
    /\ BuildStarts(t)
    /\ ~AlreadyInitialized(ENV_INITIALIZED)
    /\ env_thread' = [env_thread EXCEPT ![t] =
                         [Started(t) EXCEPT !.pc = "spdk_env_init"]]
    /\ spdk_env' = [spdk_env EXCEPT !.init_running = @ + 1]
    /\ UNCHANGED <<classifiers, thread_rs>>

\* build: spdk_env_init returned 0, Ok(SpdkEnv).
BuildOk(t) ==
    /\ env_thread[t].pc = "spdk_env_init"
    /\ \E rc \in spdk_env_init(spdk_env) :
          /\ ~InitFailed(rc)
          /\ spdk_env' = [spdk_env EXCEPT
                             !.init_running = @ - 1,
                             !.eal = IF rc = 0 THEN "initialized" ELSE @]
    /\ env_thread' =
          [env_thread EXCEPT ![t] =
              [Returns(t, "build", "Ok", FALSE) EXCEPT !.held = @ + 1]]
    /\ UNCHANGED <<ENV_INITIALIZED, env_calls, classifiers, thread_rs>>

\* build: spdk_env_init returned an error code.
BuildInitFails(t) ==
    /\ env_thread[t].pc = "spdk_env_init"
    /\ \E rc \in spdk_env_init(spdk_env) : InitFailed(rc)
    /\ spdk_env' = [spdk_env EXCEPT !.init_running = @ - 1]
    /\ env_thread' = [env_thread EXCEPT ![t].pc = "init_failed"]
    /\ UNCHANGED <<ENV_INITIALIZED, env_calls, classifiers, thread_rs>>

\* build: ENV_INITIALIZED.store(false), Err(EnvInit).
BuildClearsFlag(t) ==
    /\ env_thread[t].pc = "init_failed"
    /\ ENV_INITIALIZED' = FALSE
    /\ env_thread' = [env_thread EXCEPT ![t] =
                         Returns(t, "build", "EnvInit", FALSE)]
    /\ UNCHANGED <<spdk_env, env_calls, classifiers, thread_rs>>

\* drop: spdk_env_fini is entered.
DropEntersFini(t) ==
    /\ env_thread[t].pc = "idle"
    /\ env_thread[t].held > 0
    /\ env_thread' = [env_thread EXCEPT ![t].pc = "spdk_env_fini"]
    /\ spdk_env' = [spdk_env EXCEPT !.fini_running = @ + 1]
    /\ UNCHANGED <<ENV_INITIALIZED, env_calls, classifiers, thread_rs>>

\* drop: spdk_env_fini returns.
DropFiniReturns(t) ==
    /\ env_thread[t].pc = "spdk_env_fini"
    /\ spdk_env' = [spdk_env EXCEPT !.fini_running = @ - 1,
                                    !.eal = "finished"]
    /\ env_thread' = [env_thread EXCEPT ![t].pc = "fini_done"]
    /\ UNCHANGED <<ENV_INITIALIZED, env_calls, classifiers, thread_rs>>

\* drop: ENV_INITIALIZED.store(false), the value is gone.
DropClearsFlag(t) ==
    /\ env_thread[t].pc = "fini_done"
    /\ ENV_INITIALIZED' = FALSE
    /\ env_thread' =
          [env_thread EXCEPT ![t] =
              [Returns(t, "drop", "none", FALSE) EXCEPT !.held = @ - 1]]
    /\ env_calls' = [env_calls EXCEPT !.dropped = TRUE]
    /\ UNCHANGED <<spdk_env, classifiers, thread_rs>>

\* SpdkEnv::is_initialized
is_initialized == ENV_INITIALIZED

IsInitialized(t) ==
    /\ env_thread[t].pc = "idle"
    /\ env_thread' = [env_thread EXCEPT ![t] =
                         Returns(t, "is_initialized", "none", is_initialized)]
    /\ UNCHANGED <<ENV_INITIALIZED, spdk_env, env_calls, classifiers, thread_rs>>

EnvNext ==
    \E t \in OsThreads :
        \/ BuildAlreadyInitialized(t)
        \/ BuildNulError(t)
        \/ BuildEntersInit(t)
        \/ BuildOk(t)
        \/ BuildInitFails(t)
        \/ BuildClearsFlag(t)
        \/ DropEntersFini(t)
        \/ DropFiniReturns(t)
        \/ DropClearsFlag(t)
        \/ IsInitialized(t)

EnvSpec == EnvInit /\ [][EnvNext]_vars
\* No build or drop is in progress on any thread.
EnvQuiescent == \A t \in OsThreads : env_thread[t].pc = "idle"

(***************************************************************************)
(* C26: under any interleaving of build calls and SpdkEnv drops on the OS  *)
(* threads, at most one SpdkEnv exists at a time; a build that starts      *)
(* while an SpdkEnv exists returns AlreadyInitialized and never enters     *)
(* spdk_env_init; and spdk_env_init never runs at the same time as         *)
(* another spdk_env_init or as spdk_env_fini.                              *)
(***************************************************************************)
C26_OneEnvironment ==
    /\ EnvAlive <= 1
    /\ spdk_env.init_running <= 1
    /\ ~(spdk_env.init_running > 0 /\ spdk_env.fini_running > 0)
    /\ \A t \in OsThreads :
          env_thread[t].saw_env =>
              /\ env_thread[t].pc \notin {"spdk_env_init", "init_failed"}
              /\ env_thread[t].last.op = "build" =>
                    env_thread[t].last.result = "AlreadyInitialized"

\* While one thread is inside spdk_env_fini, dropping the SpdkEnv it built,
\* another thread's build has returned AlreadyInitialized.
C26_Witness ==
    \E t, u \in OsThreads :
        /\ t # u
        /\ env_thread[t].pc = "spdk_env_fini"
        /\ env_thread[t].held = 1
        /\ env_thread[u].saw_env
        /\ env_thread[u].last.op = "build"
        /\ env_thread[u].last.result = "AlreadyInitialized"

\* Two builds raced: one is inside spdk_env_init, the other has returned
\* AlreadyInitialized though no SpdkEnv existed yet.
C26_WitnessRace ==
    \E t, u \in OsThreads :
        /\ env_thread[t].pc = "spdk_env_init"
        /\ ~env_thread[u].saw_env
        /\ env_thread[u].last.op = "build"
        /\ env_thread[u].last.result = "AlreadyInitialized"
        /\ EnvAlive = 0

(***************************************************************************)
(* C27: is_initialized() returns true exactly when an SpdkEnv returned by  *)
(* a successful build exists and has not been dropped; stated for the      *)
(* moments at which no build or drop is in progress.                       *)
(***************************************************************************)
C27_IsInitializedIffEnvExists ==
    EnvQuiescent => (is_initialized <=> EnvAlive > 0)

MaxCurrents == 3
MaxInits == 1
MaxInitCurrents == 2

\* pub const DEFAULT_MSG_MEMPOOL_SIZE: usize = 262144 - 1.
DEFAULT_MSG_MEMPOOL_SIZE == 262143

\* pub const SMALL_MSG_MEMPOOL_SIZE: usize = 1023.
SMALL_MSG_MEMPOOL_SIZE == 1023

\* The msg_mempool_size arguments; current passes none, and
\* spdk_thread_lib_init then takes SPDK's default.
MempoolSizes == {DEFAULT_MSG_MEMPOOL_SIZE, SMALL_MSG_MEMPOOL_SIZE}

env_frame == <<env_rs, classifiers>>

\* Self::count(): spdk_thread_get_count().
count == Cardinality(spdk_thread_lib.threads)

\* The SpdkThread values that exist.
AliveThreads == UNION {os_thread[t].owned : t \in OsThreads}

\* A call of OS thread t returns.
ThreadReturns(t, op, result, id) ==
    [os_thread[t] EXCEPT !.pc = "idle", !.call = "none", !.size = 0,
                         !.dropping = NULL,
                         !.last = [op |-> op, result |-> result, id |-> id],
                         !.got = [fresh |-> FALSE, value |-> NULL]]

\* The swap of thread_lib_init / thread_lib_init_ext does not decide.
AlreadyInitializedLib_Unchecked(old) == FALSE

\* thread_lib_init, line 92, thread_lib_init_ext, line 71:
\* if THREAD_LIB_INITIALIZED.swap(true) { return Ok(()) }.
AlreadyInitializedLib(old) == old

\* current (thread_lib_init, line 92) or current_with_mempool_size
\* (thread_lib_init_ext, line 71): the swap found the flag set.
CurrentSkipsInit(t) ==
    /\ os_thread[t].pc = "idle"
    /\ thread_calls > 0
    /\ AlreadyInitializedLib(THREAD_LIB_INITIALIZED)
    /\ THREAD_LIB_INITIALIZED' = TRUE
    /\ thread_calls' = thread_calls - 1
    /\ os_thread' = [os_thread EXCEPT ![t].pc = "spdk_thread_create",
                                      ![t].call = "current"]
    /\ UNCHANGED <<spdk_thread_lib, init_calls, env_frame>>

\* current (thread_lib_init, lines 92-97: spdk_thread_lib_init with the
\* default mempool size) or current_with_mempool_size (thread_lib_init_ext,
\* lines 71-75): the swap found the flag clear and set it; the library's
\* init function is entered.
CurrentEntersLibInit(t, msg_mempool_size) ==
    /\ os_thread[t].pc = "idle"
    /\ thread_calls > 0
    /\ ~AlreadyInitializedLib(THREAD_LIB_INITIALIZED)
    /\ THREAD_LIB_INITIALIZED' = TRUE
    /\ thread_calls' = thread_calls - 1
    /\ os_thread' = [os_thread EXCEPT ![t].pc = "spdk_thread_lib_init",
                                      ![t].call = "current",
                                      ![t].size = msg_mempool_size]
    /\ spdk_thread_lib' =
           [spdk_thread_lib EXCEPT !.init_running = @ + 1]
    /\ UNCHANGED <<init_calls, env_frame>>

\* thread_lib_init_ext called by the program, lines 71-73: the swap found
\* the flag set; Ok without a call of the library.
InitExtSkips(t, msg_mempool_size) ==
    /\ os_thread[t].pc = "idle"
    /\ init_calls > 0
    /\ AlreadyInitializedLib(THREAD_LIB_INITIALIZED)
    /\ THREAD_LIB_INITIALIZED' = TRUE
    /\ init_calls' = init_calls - 1
    /\ os_thread' =
           [os_thread EXCEPT
                ![t] = ThreadReturns(t, "thread_lib_init_ext", "Ok", NULL)]
    /\ UNCHANGED <<spdk_thread_lib, thread_calls, env_frame>>

\* thread_lib_init_ext called by the program, lines 71-75: the swap found
\* the flag clear and set it; spdk_thread_lib_init_ext is entered.
InitExtEntersLibInit(t, msg_mempool_size) ==
    /\ os_thread[t].pc = "idle"
    /\ init_calls > 0
    /\ ~AlreadyInitializedLib(THREAD_LIB_INITIALIZED)
    /\ THREAD_LIB_INITIALIZED' = TRUE
    /\ init_calls' = init_calls - 1
    /\ os_thread' = [os_thread EXCEPT ![t].pc = "spdk_thread_lib_init",
                                      ![t].call = "thread_lib_init_ext",
                                      ![t].size = msg_mempool_size]
    /\ spdk_thread_lib' =
           [spdk_thread_lib EXCEPT !.init_running = @ + 1]
    /\ UNCHANGED <<thread_calls, env_frame>>

\* The library after its init function returned 0 for this caller.
LibInitialized(t) ==
    [spdk_thread_lib EXCEPT !.init_running = @ - 1,
                            !.initialized = TRUE,
                            !.msg_mempool_size = os_thread[t].size,
                            !.init_by = os_thread[t].call,
                            !.inits = @ + 1]

\* spdk_thread_lib_init returns 0 inside current: thread_lib_init returns
\* Ok (line 105) and current goes on.
LibInitOk(t) ==
    /\ os_thread[t].pc = "spdk_thread_lib_init"
    /\ os_thread[t].call = "current"
    /\ spdk_thread_lib' = LibInitialized(t)
    /\ os_thread' = [os_thread EXCEPT ![t].pc = "spdk_thread_create"]
    /\ UNCHANGED <<THREAD_LIB_INITIALIZED, thread_calls, init_calls,
                   env_frame>>

\* spdk_thread_lib_init_ext returns 0 to thread_lib_init_ext, which returns
\* Ok (line 85) to the program.
InitExtOk(t) ==
    /\ os_thread[t].pc = "spdk_thread_lib_init"
    /\ os_thread[t].call = "thread_lib_init_ext"
    /\ spdk_thread_lib' = LibInitialized(t)
    /\ os_thread' =
           [os_thread EXCEPT
                ![t] = ThreadReturns(t, "thread_lib_init_ext", "Ok", NULL)]
    /\ UNCHANGED <<THREAD_LIB_INITIALIZED, thread_calls, init_calls,
                   env_frame>>

\* spdk_thread_lib_init returns an error code.
LibInitFails(t) ==
    /\ os_thread[t].pc = "spdk_thread_lib_init"
    /\ spdk_thread_lib' =
           [spdk_thread_lib EXCEPT !.init_running = @ - 1]
    /\ os_thread' = [os_thread EXCEPT ![t].pc = "init_failed"]
    /\ UNCHANGED <<THREAD_LIB_INITIALIZED, thread_calls, init_calls,
                   env_frame>>

\* thread_lib_init, line 99, thread_lib_init_ext, line 77:
\* THREAD_LIB_INITIALIZED.store(false).
FlagAfterFailedInit(old) == FALSE

\* thread_lib_init, lines 98-103, thread_lib_init_ext, lines 76-82: the flag
\* is cleared and the error returned, by current through its `?`.
CurrentClearsFlag(t) ==
    /\ os_thread[t].pc = "init_failed"
    /\ THREAD_LIB_INITIALIZED' = FlagAfterFailedInit(THREAD_LIB_INITIALIZED)
    /\ os_thread' =
           [os_thread EXCEPT ![t] = ThreadReturns(t, os_thread[t].call,
                                                  "EnvInit", NULL)]
    /\ UNCHANGED <<spdk_thread_lib, thread_calls, init_calls, env_frame>>

\* current, line 176: the name holds a NUL byte.
CurrentNulError(t) ==
    /\ os_thread[t].pc = "spdk_thread_create"
    /\ os_thread' =
           [os_thread EXCEPT ![t] = ThreadReturns(t, "current", "NulError",
                                                  NULL)]
    /\ UNCHANGED <<THREAD_LIB_INITIALIZED, spdk_thread_lib, thread_calls,
                   init_calls, env_frame>>

\* current, lines 178-181: spdk_thread_create returns NULL.
CurrentCreateFails(t) ==
    /\ os_thread[t].pc = "spdk_thread_create"
    /\ os_thread' =
           [os_thread EXCEPT ![t] = ThreadReturns(t, "current", "EnvInit",
                                                  NULL)]
    /\ UNCHANGED <<THREAD_LIB_INITIALIZED, spdk_thread_lib, thread_calls,
                   init_calls, env_frame>>

\* current, lines 178-191: spdk_thread_create returns a new thread, which
\* spdk_set_thread makes the current one of this OS thread.  Only an
\* initialized library creates threads.
CurrentOk(t) ==
    /\ os_thread[t].pc = "spdk_thread_create"
    /\ spdk_thread_lib.initialized
    /\ LET ptr == spdk_thread_lib.next_id
       IN /\ spdk_thread_lib' =
                 [spdk_thread_lib EXCEPT !.threads = @ \cup {ptr},
                                         !.next_id = @ + 1]
          /\ os_thread' =
                 [os_thread EXCEPT
                      ![t] = [ThreadReturns(t, "current", "Ok", ptr)
                                  EXCEPT !.tls = ptr,
                                         !.owned = @ \cup {ptr}]]
    /\ UNCHANGED <<THREAD_LIB_INITIALIZED, thread_calls, init_calls,
                   env_frame>>

\* The dropped thread stays the current one.
TlsAfterDrop_Kept(tls, ptr) == tls

\* Drop, line 359: spdk_set_thread(null) whichever thread is current.
TlsAfterDrop(tls, ptr) == NULL

\* Drop, lines 349-362: the thread exits, is polled until it has exited,
\* stops being the current one and is destroyed.
DropDestroys(t, ptr) ==
    /\ os_thread[t].pc = "idle"
    /\ ptr \in os_thread[t].owned
    /\ spdk_thread_lib' =
           [spdk_thread_lib EXCEPT !.threads = @ \ {ptr}]
    /\ os_thread' =
           [os_thread EXCEPT
                ![t].pc = "count",
                ![t].dropping = ptr,
                ![t].owned = @ \ {ptr},
                ![t].tls = TlsAfterDrop(os_thread[t].tls, ptr)]
    /\ UNCHANGED <<THREAD_LIB_INITIALIZED, thread_calls, init_calls,
                   env_frame>>

\* Drop, line 366: other threads are counted; the drop is over.
DropNotLast(t) ==
    /\ os_thread[t].pc = "count"
    /\ count # 0
    /\ os_thread' =
           [os_thread EXCEPT
                ![t] = ThreadReturns(t, "drop", "done",
                                     os_thread[t].dropping)]
    /\ UNCHANGED <<THREAD_LIB_INITIALIZED, spdk_thread_lib, thread_calls,
                   init_calls, env_frame>>

\* Drop, lines 366-367: no thread is counted; thread_lib_fini is called.
DropLast(t) ==
    /\ os_thread[t].pc = "count"
    /\ count = 0
    /\ os_thread' = [os_thread EXCEPT ![t].pc = "thread_lib_fini"]
    /\ UNCHANGED <<THREAD_LIB_INITIALIZED, spdk_thread_lib, thread_calls,
                   init_calls, env_frame>>

\* thread_lib_fini, line 115: the swap found the flag clear.
FiniSkipped(t) ==
    /\ os_thread[t].pc = "thread_lib_fini"
    /\ ~THREAD_LIB_INITIALIZED
    /\ os_thread' =
           [os_thread EXCEPT
                ![t] = ThreadReturns(t, "drop", "done",
                                     os_thread[t].dropping)]
    /\ UNCHANGED <<THREAD_LIB_INITIALIZED, spdk_thread_lib, thread_calls,
                   init_calls, env_frame>>

\* thread_lib_fini, lines 115-117: the swap found the flag set and cleared
\* it; spdk_thread_lib_fini is entered.
FiniEntersLibFini(t) ==
    /\ os_thread[t].pc = "thread_lib_fini"
    /\ THREAD_LIB_INITIALIZED
    /\ THREAD_LIB_INITIALIZED' = FALSE
    /\ spdk_thread_lib' =
           [spdk_thread_lib EXCEPT !.fini_running = @ + 1,
                                   !.finis = @ + 1]
    /\ os_thread' = [os_thread EXCEPT ![t].pc = "spdk_thread_lib_fini"]
    /\ UNCHANGED <<thread_calls, init_calls, env_frame>>

\* spdk_thread_lib_fini returns; the drop is over.
LibFiniReturns(t) ==
    /\ os_thread[t].pc = "spdk_thread_lib_fini"
    /\ spdk_thread_lib' =
           [spdk_thread_lib EXCEPT !.fini_running = @ - 1,
                                   !.initialized = FALSE]
    /\ os_thread' =
           [os_thread EXCEPT
                ![t] = ThreadReturns(t, "drop", "done",
                                     os_thread[t].dropping)]
    /\ UNCHANGED <<THREAD_LIB_INITIALIZED, thread_calls, init_calls,
                   env_frame>>

\* SpdkThread::get_current(): spdk_get_thread() of the calling OS thread.
get_current(t) == os_thread[t].tls

\* A call of get_current on OS thread t.
GetCurrent(t) ==
    /\ os_thread[t].pc = "idle"
    /\ os_thread[t].last.op # "none"
    /\ ~os_thread[t].got.fresh
    /\ os_thread' =
           [os_thread EXCEPT
                ![t].got = [fresh |-> TRUE, value |-> get_current(t)]]
    /\ UNCHANGED <<THREAD_LIB_INITIALIZED, spdk_thread_lib, thread_calls,
                   init_calls, env_frame>>

\* The program creates and drops SpdkThreads, and makes no call of
\* thread_lib_init_ext itself.
ThreadInit ==
    /\ NoParser
    /\ NoEnv
    /\ ThreadsAtStart
    /\ thread_calls = MaxCurrents
    /\ init_calls = 0

ThreadNext ==
    \E t \in OsThreads :
        \/ CurrentSkipsInit(t)
        \/ \E size \in MempoolSizes : CurrentEntersLibInit(t, size)
        \/ LibInitOk(t)
        \/ LibInitFails(t)
        \/ CurrentClearsFlag(t)
        \/ CurrentNulError(t)
        \/ CurrentCreateFails(t)
        \/ CurrentOk(t)
        \/ \E ptr \in 1..MaxCurrents : DropDestroys(t, ptr)
        \/ DropNotLast(t)
        \/ DropLast(t)
        \/ FiniSkipped(t)
        \/ FiniEntersLibFini(t)
        \/ LibFiniReturns(t)
        \/ GetCurrent(t)

ThreadSpec == ThreadInit /\ [][ThreadNext]_vars

(***************************************************************************)
(* C29: on one OS thread, a get_current() that directly follows a          *)
(* successful SpdkThread::new / current returns the thread just created    *)
(* (the same id), and one that directly follows the drop of that           *)
(* SpdkThread returns None.                                                *)
(***************************************************************************)
C29_GetCurrentFollowsThread ==
    \A t \in OsThreads :
        os_thread[t].got.fresh =>
            /\ (os_thread[t].last.op = "current"
                    /\ os_thread[t].last.result = "Ok") =>
                   os_thread[t].got.value = os_thread[t].last.id
            /\ os_thread[t].last.op = "drop" =>
                   os_thread[t].got.value = NULL

\* get_current returned the thread that current had just created.
C29_Witness ==
    \E t \in OsThreads :
        /\ os_thread[t].got.fresh
        /\ os_thread[t].last.op = "current"
        /\ os_thread[t].last.result = "Ok"
        /\ os_thread[t].got.value = os_thread[t].last.id
        /\ os_thread[t].got.value # NULL

\* get_current returned None after the drop of one of two SpdkThreads of
\* the OS thread.
C29_WitnessDropped ==
    \E t \in OsThreads :
        /\ os_thread[t].got.fresh
        /\ os_thread[t].last.op = "drop"
        /\ os_thread[t].got.value = NULL
        /\ os_thread[t].owned # {}
\* No call of thread.rs is in progress on any OS thread.
ThreadsQuiescent == \A t \in OsThreads : os_thread[t].pc = "idle"

(***************************************************************************)
(* C30: the thread library is finalized exactly when the last SpdkThread   *)
(* is destroyed: while spdk_thread_lib_fini runs the thread count is zero  *)
(* and no SpdkThread is alive; it has been called at most once per         *)
(* successful initialization; and once no call is in progress the          *)
(* initialized flag is set exactly when the library is initialized, so     *)
(* that the next creation after a finalization initializes it again.       *)
(***************************************************************************)
C30_FiniAtLastThread ==
    /\ \A t \in OsThreads :
           os_thread[t].pc = "spdk_thread_lib_fini" =>
               /\ count = 0
               /\ AliveThreads = {}
    /\ spdk_thread_lib.finis <= spdk_thread_lib.inits
    /\ ThreadsQuiescent =>
           (THREAD_LIB_INITIALIZED <=> spdk_thread_lib.initialized)
\* The program calls thread_lib_init_ext itself, next to the calls of
\* current and the drops.
InitInit ==
    /\ NoParser
    /\ NoEnv
    /\ ThreadsAtStart
    /\ thread_calls = MaxInitCurrents
    /\ init_calls = MaxInits

InitNext ==
    \E t \in OsThreads :
        \/ \E size \in MempoolSizes : InitExtSkips(t, size)
        \/ \E size \in MempoolSizes : InitExtEntersLibInit(t, size)
        \/ InitExtOk(t)
        \/ CurrentSkipsInit(t)
        \/ \E size \in MempoolSizes : CurrentEntersLibInit(t, size)
        \/ LibInitOk(t)
        \/ LibInitFails(t)
        \/ CurrentClearsFlag(t)
        \/ CurrentNulError(t)
        \/ CurrentCreateFails(t)
        \/ CurrentOk(t)
        \/ \E ptr \in 1..MaxInitCurrents : DropDestroys(t, ptr)
        \/ DropNotLast(t)
        \/ DropLast(t)
        \/ FiniSkipped(t)
        \/ FiniEntersLibFini(t)
        \/ LibFiniReturns(t)

InitSpec == InitInit /\ [][InitNext]_vars

\* A call of thread_lib_init or thread_lib_init_ext starts in this step, by
\* a call of current or by the program.
InitCallStarts == thread_calls' # thread_calls \/ init_calls' # init_calls

(***************************************************************************)
(* C31: thread_lib_init and thread_lib_init_ext call the underlying        *)
(* initialization at most once per period in which the initialized flag is *)
(* set: the library's init function is entered only by a call that found   *)
(* the flag clear and set it; a call that finds the flag set leaves the    *)
(* library as it is, and returns Ok when the program made it; the mempool  *)
(* size of the library changes only when an init function returns 0, to    *)
(* the argument of the call that entered it; and a call whose underlying   *)
(* initialization failed returns the error with the flag false.            *)
(***************************************************************************)
C31_InitOncePerFlagPeriod ==
    [][/\ spdk_thread_lib'.init_running > spdk_thread_lib.init_running =>
              /\ InitCallStarts
              /\ ~THREAD_LIB_INITIALIZED
              /\ THREAD_LIB_INITIALIZED'
       /\ (InitCallStarts /\ THREAD_LIB_INITIALIZED) =>
              /\ spdk_thread_lib' = spdk_thread_lib
              /\ THREAD_LIB_INITIALIZED'
              /\ init_calls' # init_calls =>
                     \E t \in OsThreads :
                         /\ \A u \in OsThreads \ {t} :
                                os_thread'[u] = os_thread[u]
                         /\ os_thread[t].pc = "idle"
                         /\ os_thread'[t].pc = "idle"
                         /\ os_thread'[t].last.op = "thread_lib_init_ext"
                         /\ os_thread'[t].last.result = "Ok"
       /\ spdk_thread_lib'.msg_mempool_size
              # spdk_thread_lib.msg_mempool_size =>
              \E t \in OsThreads :
                  /\ os_thread[t].pc = "spdk_thread_lib_init"
                  /\ os_thread'[t].pc # "spdk_thread_lib_init"
                  /\ spdk_thread_lib'.msg_mempool_size = os_thread[t].size
                  /\ spdk_thread_lib'.inits = spdk_thread_lib.inits + 1
       /\ \A t \in OsThreads :
              os_thread[t].pc = "init_failed" =>
                  \/ os_thread'[t] = os_thread[t]
                  \/ /\ os_thread'[t].pc = "idle"
                     /\ os_thread'[t].last.result = "EnvInit"
                     /\ ~THREAD_LIB_INITIALIZED'
      ]_vars

\* The program's thread_lib_init_ext returned Ok without a call of the
\* library, which an earlier current had initialized with another size.
C31_Witness ==
    \E t \in OsThreads :
        /\ os_thread[t].pc = "idle"
        /\ os_thread[t].last.op = "thread_lib_init_ext"
        /\ os_thread[t].last.result = "Ok"
        /\ spdk_thread_lib.inits = 1
        /\ spdk_thread_lib.init_by = "current"
        /\ spdk_thread_lib.initialized
        /\ spdk_thread_lib.msg_mempool_size \in MempoolSizes

\* The program's thread_lib_init_ext returned the error of the library and
\* left the flag false.
C31_WitnessFailed ==
    \E t \in OsThreads :
        /\ os_thread[t].pc = "idle"
        /\ os_thread[t].last.op = "thread_lib_init_ext"
        /\ os_thread[t].last.result = "EnvInit"
        /\ ~THREAD_LIB_INITIALIZED
        /\ spdk_thread_lib.inits = 0

(***************************************************************************)
(* C32: in pkgconf parse, after every consumed prefix, each Library entry  *)
(* of kind Static or WholeArchive names a library whose lib<name>.a lies   *)
(* directly in at least one -L directory of the input that is not under a  *)
(* system root, whether the entry was created with that kind or upgraded.  *)
(***************************************************************************)
C32_StaticKindsHaveArchive ==
    parser = "pkgconf" =>
        \A i \in 1..Len(flags) :
            (flags[i].tag = "Library"
                 /\ flags[i].kind \in {"Static", "WholeArchive"}) =>
                \E d \in ArchiveDirs(flags[i].name) : ~IsSystemDir(d)

\* f was created Static outside the region and upgraded to WholeArchive by
\* a later mention inside it; its archive lies in /o and in /usr/l, and the
\* -L/o token comes after both mentions.
C32_Witness ==
    /\ Finished
    /\ pkg_config_output = <<T_l_f, T_whole, T_l_f, T_L_o>>
    /\ ArchiveDirs(N_f) = {D_o}
    /\ ~IsSystemDir(D_o)
    /\ \E i \in EntriesOf(N_f) : flags[i].kind = "WholeArchive"

\* g is forced and mentioned inside the region, its archive lies only
\* under the system root, and its entry is Default.
C32_WitnessSystemOnly ==
    /\ Finished
    /\ N_g \in force_whole_archive
    /\ pkg_config_output = <<T_L_usr_l, T_L_o, T_whole, T_l_g>>
    /\ \E i \in EntriesOf(N_g) : flags[i].kind = "Default"
\* parse of the crate in use, as a function of its input.
Parse(output) ==
    IF parser = "pkgconf" THEN PkgParse(output) ELSE BldParse(output)

\* The sequence s with the elements at i and j exchanged.
Swap(s, i, j) == [s EXCEPT ![i] = s[j], ![j] = s[i]]

\* The kinds of the Library entries for name in the output fl.
KindsOf(fl, name) ==
    { fl[k].kind : k \in { m \in 1..Len(fl) :
                             fl[m].tag = "Library" /\ fl[m].name = name } }

\* The pairs of positions i < j of the input of which one holds -pthread
\* and the other -lpthread or -l:libpthread.a, with no -Wl token between
\* them, so that exchanging them moves neither into or out of a region.
PthreadPairs ==
    { p \in (1..Len(pkg_config_output)) \X (1..Len(pkg_config_output)) :
        /\ p[1] < p[2]
        /\ \/ pkg_config_output[p[1]] = T_pthread
                /\ p[2] \in LibMentions(S_pthread)
           \/ p[1] \in LibMentions(S_pthread)
                /\ pkg_config_output[p[2]] = T_pthread
        /\ \A k \in (p[1] + 1)..(p[2] - 1) : ~IsWlToken(pkg_config_output[k]) }

\* The policy and the disk leave one kind for pthread: no static archive
\* is available (pkgconf), or pthread is a system library (spdk_io_build).
PthreadKindFixed ==
    IF parser = "pkgconf" THEN ~Available(S_pthread)
    ELSE is_system_lib(S_pthread)

(***************************************************************************)
(* C33 as stated: for inputs that differ only in the relative order of a   *)
(* -pthread token and a -lpthread / -l:libpthread.a token, the pthread     *)
(* entry has the same final kind.                                          *)
(***************************************************************************)
C33_PthreadOrderIndependent ==
    Finished =>
        \A p \in PthreadPairs :
            KindsOf(flags, S_pthread)
                = KindsOf(Parse(Swap(pkg_config_output, p[1], p[2])),
                          S_pthread)

(***************************************************************************)
(* C33 amended: -pthread and -lpthread / -l:libpthread.a denote the same   *)
(* library, with one entry in either order; its final kind is the same in  *)
(* both orders when no static libpthread.a is available (pkgconf) or       *)
(* pthread is in system_libs (spdk_io_build), or when an earlier token     *)
(* already named pthread; otherwise the first of the two tokens decides:   *)
(* with -pthread first the kind is Default (pkgconf) / Dynamic             *)
(* (spdk_io_build), with the -l mention first it is Static or              *)
(* WholeArchive.                                                           *)
(***************************************************************************)
C33_PthreadFirstMentionDecides ==
    Finished =>
        \A p \in PthreadPairs :
            LET here == KindsOf(flags, S_pthread)
                there == KindsOf(Parse(Swap(pkg_config_output, p[1], p[2])),
                                 S_pthread)
                flag_first == pkg_config_output[p[1]] = T_pthread
                earlier == \E m \in Mentions(S_pthread) : m < p[1]
            IN /\ Cardinality(EntriesOf(S_pthread)) = 1
               /\ Cardinality(here) = 1
               /\ Cardinality(there) = 1
               /\ (PthreadKindFixed \/ earlier) => here = there
               /\ ~(PthreadKindFixed \/ earlier) =>
                      /\ (IF flag_first THEN here ELSE there) = {PthreadKind}
                      /\ (IF flag_first THEN there ELSE here)
                             \subseteq {"Static", "WholeArchive"}

\* pkgconf, libpthread.a available in the search directory /o: -pthread
\* before -lpthread ends Default, the exchanged input ends Static.
C33_Witness ==
    /\ Finished
    /\ parser = "pkgconf"
    /\ pkg_config_output = <<T_L_o, T_pthread, T_l_pthread>>
    /\ <<2, 3>> \in PthreadPairs
    /\ ~PthreadKindFixed
    /\ KindsOf(flags, S_pthread) = {"Default"}
    /\ KindsOf(Parse(Swap(pkg_config_output, 2, 3)), S_pthread) = {"Static"}

\* spdk_io_build with pthread in system_libs: Dynamic in either order, the
\* -l mention inside a region.
C33_WitnessFixed ==
    /\ Finished
    /\ parser = "spdk_io_build"
    /\ pkg_config_output = <<T_whole, T_l_pthread, T_pthread>>
    /\ PthreadKindFixed
    /\ KindsOf(flags, S_pthread) = {"Dynamic"}
    /\ KindsOf(Parse(Swap(pkg_config_output, 2, 3)), S_pthread) = {"Dynamic"}
(***************************************************************************)
(* Both crates on the same input                                           *)
(***************************************************************************)
MaxAgree == 4

AgreeVocabulary ==
    {T_L_o, T_l_f, T_lc_libf_a, T_pthread, T_l_pthread, T_whole,
     T_as_needed}

AgreeInputs == UNION { [1..k -> AgreeVocabulary] : k \in 0..MaxAgree }

AgreeSystemLibChoices == { {}, {N_f}, {S_pthread}, {N_f, S_pthread} }

\* Either crate runs; the configuration of the other one is set as well.
AgreeInit ==
    /\ parser \in {"pkgconf", "spdk_io_build"}
    /\ system_roots \in SystemRootChoices
    /\ force_whole_archive = {}
    /\ system_libs \in AgreeSystemLibChoices
    /\ files \in FileSystems
    /\ pkg_config_output \in AgreeInputs
    /\ pc = (IF parser = "pkgconf" THEN "first_pass" ELSE "second_pass")
    /\ ParseEntry
    /\ NoCflags
    /\ NoProbe
    /\ NoDirectives
    /\ probe_calls = <<>>
    /\ NoOuter

AgreeNext == PthreadNext

AgreeSpec == AgreeInit /\ [][AgreeNext]_vars

\* The library names the input mentions.
InputLibNames ==
    { n \in {N_f, S_pthread} : Mentions(n) # {} }

\* The policies of the two crates coincide on the input: pkgconf forces no
\* library, and a static archive is available exactly for the names that
\* are not in system_libs.
PoliciesCoincide ==
    /\ force_whole_archive = {}
    /\ \A n \in InputLibNames : Available(n) <=> n \notin system_libs

\* An output with pkgconf's Default read as Dynamic.
ReadDynamic(fl) ==
    [i \in 1..Len(fl) |->
        IF fl[i].tag = "Library" /\ fl[i].kind = "Default"
        THEN Library(fl[i].name, "Dynamic")
        ELSE fl[i]]

(***************************************************************************)
(* C34: for every input on which the policies coincide (force_whole_archive*)
(* empty, a static archive available exactly for the names not in          *)
(* system_libs), pkgconf parse and spdk_io_build parse return the same     *)
(* sequence of entries, with pkgconf's Default read as Dynamic; the pass   *)
(* that ran ends with that sequence.                                       *)
(***************************************************************************)
C34_ParsersAgree ==
    (Finished /\ PoliciesCoincide) =>
        /\ ReadDynamic(PkgParse(pkg_config_output))
               = BldParse(pkg_config_output)
        /\ ReadDynamic(flags) = BldParse(pkg_config_output)

\* No search directory, so neither f nor pthread has an archive, and both
\* are system libraries; pthread is mentioned inside the region, and both
\* crates end with the same two entries.
C34_Witness ==
    /\ Finished
    /\ PoliciesCoincide
    /\ parser = "pkgconf"
    /\ system_libs = {N_f, S_pthread}
    /\ pkg_config_output = <<T_l_f, T_whole, T_l_pthread, T_pthread>>
    /\ flags = <<Library(N_f, "Default"), Library(S_pthread, "Default")>>
    /\ BldParse(pkg_config_output)
           = <<Library(N_f, "Dynamic"), Library(S_pthread, "Dynamic")>>

\* spdk_io_build ran: f is Static at its first mention and upgraded by the
\* mention inside the region, as in pkgconf.
C34_WitnessUpgrade ==
    /\ Finished
    /\ PoliciesCoincide
    /\ parser = "spdk_io_build"
    /\ pkg_config_output = <<T_l_f, T_whole, T_l_f, T_L_o>>
    /\ flags = <<Library(N_f, "WholeArchive"), SearchPath(D_o)>>
    /\ PkgParse(pkg_config_output) = flags
\* to_clang_args: each flag rendered by to_clang_arg, in order.
to_clang_args(fl) == [i \in 1..Len(fl) |-> to_clang_arg(fl[i])]

(***************************************************************************)
(* C35: to_clang_args(parse_cflags(input)) is the sequence of the input's  *)
(* tokens that start with -I or -D, repeated tokens removed keeping the    *)
(* first occurrence, character for character: -DX= keeps its = with an     *)
(* empty value, -DX=1=2 keeps both =, and the bare -I is kept as it is.    *)
(* Stated for the fold of parse_cflags over the whole input and for the    *)
(* result of the pass that ran.                                            *)
(***************************************************************************)
C35_ClangArgsRoundTrip ==
    /\ to_clang_args(ParseCflags(cflags_output))
         = FirstOccurrences(Len(cflags_output))
    /\ CfFinished => to_clang_args(cflags) = FirstOccurrences(Len(cflags_output))

\* -DX=, -DX=1=2, -DX= again, the bare -I and -DX: four arguments, each
\* the text of its token.
C35_Witness ==
    /\ CfFinished
    /\ cflags_output = <<C_D_X_eq, C_D_X_1_2, C_D_X_eq, C_I, C_D_X>>
    /\ cflags = << Define(<<"X">>, [some |-> TRUE, val |-> <<>>]),
                   Define(<<"X">>, [some |-> TRUE, val |-> <<"1","=","2">>]),
                   IncludePath(<<>>),
                   Define(<<"X">>, [some |-> FALSE, val |-> <<>>]) >>
    /\ to_clang_args(cflags) = <<C_D_X_eq, C_D_X_1_2, C_I, C_D_X>>
\* The step returns thread t's build with one of the given results.
BuildReturnsWith(t, results) ==
    /\ env_thread'[t].pc = "idle"
    /\ env_thread'[t].last.op = "build"
    /\ env_thread'[t].last.result \in results
    /\ \/ env_thread[t].pc \in {"spdk_env_init", "init_failed"}
       \/ env_calls'.builds # env_calls.builds
    /\ \A u \in OsThreads \ {t} : env_thread'[u] = env_thread[u]

(***************************************************************************)
(* C36: when build() returns an error other than AlreadyInitialized - the  *)
(* EnvInit error of a non-zero spdk_env_init, or the error of a name or    *)
(* core mask that cannot be converted to a C string - the initialized      *)
(* flag is false at the return, so is_initialized() is false.              *)
(***************************************************************************)
C36_FailedBuildLeavesUninitialized ==
    [][\A t \in OsThreads :
          BuildReturnsWith(t, {"EnvInit", "NulError"}) => ~is_initialized']_vars
\* The step returns Ok from thread_lib_init_ext to the program on thread t,
\* or from thread_lib_init (thread_lib_init_ext) to current
\* (current_with_mempool_size), which goes on to spdk_thread_create.
InitReturnsOk(t) ==
    /\ os_thread[t].pc \in {"idle", "spdk_thread_lib_init"}
    /\ \A u \in OsThreads \ {t} : os_thread'[u] = os_thread[u]
    /\ \/ os_thread'[t].pc = "spdk_thread_create"
       \/ /\ os_thread'[t].pc = "idle"
          /\ os_thread'[t].last.op = "thread_lib_init_ext"
          /\ os_thread'[t].last.result = "Ok"
          /\ \/ os_thread[t].pc = "spdk_thread_lib_init"
             \/ init_calls' # init_calls

(***************************************************************************)
(* C37: with calls from several OS threads, whenever thread_lib_init or    *)
(* thread_lib_init_ext returns Ok, the thread library is initialized at    *)
(* that moment and no init function of the library is still running on     *)
(* another OS thread.                                                      *)
(***************************************************************************)
C37_OkMeansInitialized ==
    [][\A t \in OsThreads :
          InitReturnsOk(t) =>
              /\ spdk_thread_lib'.initialized
              /\ spdk_thread_lib'.init_running = 0]_vars
\* The step is the drop, on OS thread t, of an SpdkThread that is not the
\* current thread of t while another one is.
DropsNonCurrent(t) ==
    /\ os_thread[t].dropping = NULL
    /\ os_thread'[t].dropping # NULL
    /\ get_current(t) # NULL
    /\ get_current(t) # os_thread'[t].dropping
    /\ get_current(t) \in os_thread'[t].owned

(***************************************************************************)
(* C38: when several SpdkThreads exist on one OS thread, dropping one that *)
(* is not the current thread leaves the current thread unchanged:          *)
(* get_current() returns after the drop what it returned before it.        *)
(***************************************************************************)
C38_DropKeepsOtherCurrent ==
    [][\A t \in OsThreads :
          DropsNonCurrent(t) => get_current(t)' = get_current(t)]_vars
\* The names seen so far that have no index.
SeenWithoutIndex == seen_libs \ DOMAIN lib_indices

(***************************************************************************)
(* C39: throughout a parse pass the name-to-index table is consistent with *)
(* the output: every name in lib_indices is in seen_libs and its index is  *)
(* the position of the one Library entry of that name; the only seen name  *)
(* without an index is pthread, after a -pthread token that came before    *)
(* every -l mention of pthread; and a step that changes an entry in place  *)
(* changes only the entry of the library its token names.                  *)
(***************************************************************************)
C39_IndexTableConsistent ==
    /\ [](/\ DOMAIN lib_indices \subseteq seen_libs
          /\ \A n \in DOMAIN lib_indices :
                 EntriesOf(n) = {lib_indices[n] + 1}
          /\ SeenWithoutIndex \subseteq {S_pthread}
          /\ (pc = "second_pass" /\ S_pthread \in SeenWithoutIndex) =>
                 \E k \in MentionsSoFar(S_pthread) :
                     /\ IsPthreadToken(pkg_config_output[k])
                     /\ \A m \in LibMentionsSoFar(S_pthread) : k < m)
    /\ [][(/\ pc = "second_pass"
           /\ pos' = pos + 1
           /\ flags' # flags
           /\ Len(flags') = Len(flags)) =>
              /\ IsLibToken(flag)
              /\ LibTokenName(flag) \in DOMAIN lib_indices
              /\ lib_indices' = lib_indices
              /\ \A i \in 1..Len(flags) :
                     IF i = lib_indices[LibTokenName(flag)] + 1
                     THEN /\ flags[i].name = LibTokenName(flag)
                          /\ flags'[i].name = LibTokenName(flag)
                     ELSE flags'[i] = flags[i]]_vars

\* pkgconf: f was pushed first with index 0, the search path followed, and
\* the re-mention inside the region upgraded the entry at index 0 only.
C39_Witness ==
    /\ Finished
    /\ parser = "pkgconf"
    /\ pkg_config_output = <<T_l_f, T_L_o, T_whole, T_l_f>>
    /\ flags = <<Library(N_f, "WholeArchive"), SearchPath(D_o)>>
    /\ seen_libs = {N_f}
    /\ DOMAIN lib_indices = {N_f}
    /\ lib_indices[N_f] = 0

\* pkgconf: -pthread introduced pthread, which is seen without an index
\* although -lpthread followed; f has index 1.
C39_WitnessPthread ==
    /\ Finished
    /\ parser = "pkgconf"
    /\ pkg_config_output = <<T_pthread, T_l_pthread, T_l_f>>
    /\ seen_libs = {S_pthread, N_f}
    /\ SeenWithoutIndex = {S_pthread}
    /\ lib_indices[N_f] = 1
    /\ Len(flags) = 2
====
